---- MODULE Spec2Model ----
(***************************************************************************)
(* Model of the unified gesture recognizer of bible-nav                    *)
(* (gestureHandler.js: class GestureHandler and createGestureHandler).     *)
(*                                                                         *)
(* The recognizer is driven by the listeners that createGestureHandler     *)
(* attaches to one surface: touchstart/touchmove/touchend,                 *)
(* mousedown/mousemove/mouseup and dblclick.  All four callbacks are       *)
(* registered (eventHandlers.js:63-85).  The host is the browser event     *)
(* loop: handlers run to completion, Date.now() is the variable now, and   *)
(* setTimeout/clearTimeout are the set timers of live timers.  A timer     *)
(* callback runs when its delay has elapsed, before any event that arrives *)
(* at or after that moment.                                                *)
(*                                                                         *)
(* The navigation state the callbacks act on (navigationState.js and the   *)
(* handlers of eventHandlers.js) is the variable nav; SpecNav runs those   *)
(* handlers on their own, with the arguments the recognizer can pass.      *)
(***************************************************************************)
EXTENDS Integers, Sequences, FiniteSets, TLC

\* ------------------------------------------------------------ constants
SWIPE_THRESHOLD == 20
DRAG_THRESHOLD == 50
MOVEMENT_DETECTION_THRESHOLD == 5
TAP_DELAY == 300
\* the window in which mouse events after a touchend are taken as synthetic
SYNTHETIC_MOUSE_WINDOW == 500
\* tapTimeout: null
NULL == 0

\* --------------------------------------------------------------- bounds
\* Date.now() at construction, and the last instant the model looks at
Epoch == 1000
MaxTime == 1600
\* the per-stream callback counters saturate here
MaxCount == 4
\* the counters of callbacks that are compared with one saturate here
MaxEnds == 2
\* a run of rapid taps is followed for MaxRun taps
MaxRun == 3
\* the clock advances by these amounts (ms)
Dts == {150}
\* screenX / screenY / clientX values of the events
Xs == {0, 4, 20, 40, 60}
Ys == {0, 20}
ClientXs == {150, 450}
StartXs == {0, 60}
\* what an injected onSwipe callback may return: nothing (as the callbacks
\* of eventHandlers.js do) or an object asking for preventDefault
CbRets == {"undefined", "pd"}

VARIABLES
  state,          \* GestureHandler.state (the GestureState record)
  lastTouchTime,  \* GestureHandler.lastTouchTime
  timers,         \* the host's live timers (setTimeout not yet fired/cleared)
  now,            \* the host clock, Date.now()
  out,            \* what the last step did: event, callbacks, result
  h,              \* history of the current gesture stream
  nav,            \* navigationState.js: the private state object
  navh,           \* the navigation operation run last, and nav before it
  bus,            \* eventBus.js: the EventBus, and the emits in progress
  bush,           \* what the listeners of the bus have seen
  letters,        \* bookDataUtils.js: a run of buildLetterToBookIndex
  api,            \* bibleApiService.js: chapterCache and the fetchChapter calls
  sums,           \* displayManager.js: chapter summaries and the calls loading them
  view            \* displayManager.js: what is rendered, and the suspended calls

vars ==
  <<state, lastTouchTime, timers, now, out, h, nav, navh, bus, bush, letters,
    api, sums, view>>

Abs(n) == IF n < 0 THEN -n ELSE n
Min(a, b) == IF a < b THEN a ELSE b

\* ------------------------------------------------------- GestureHandler
createInitialState ==
  [startX |-> 0, startY |-> 0, lastX |-> 0, accumulatedDistance |-> 0,
   isDragging |-> FALSE, hasActuallyDragged |-> FALSE,
   lastTapTime |-> 0, tapTimeout |-> NULL]

\* getEventCoordinates: x/y are screen coordinates, clientX is separate
\* the events the host delivers: a gesture starts at the left or the right
\* edge; clientX is read at the end event only, y at move events only
StartCoords == [x : StartXs, y : {0}, clientX : {150}]
MoveCoords == [x : Xs, y : Ys, clientX : {150}]
EndCoords == [x : Xs, y : {0}, clientX : ClientXs]

\* clearTimeout(id): no effect when no live timer has that id
clearTimeout(ts, id) == {t \in ts : t.id # id}

\* reset(): clears the pending timer, replaces the state record
resetTimers(st, ts) ==
  IF st.tapTimeout # NULL THEN clearTimeout(ts, st.tapTimeout) ELSE ts

\* handleMove, line 114 / handleEnd, line 154: the guard of both methods
IsActiveOrPending(st) == st.isDragging \/ st.tapTimeout # NULL
IsActive(st) == st.isDragging

\* handleStart
handleStart(st, c) ==
  [st EXCEPT !.startX = c.x, !.startY = c.y, !.lastX = c.x,
             !.accumulatedDistance = 0, !.isDragging = TRUE,
             !.hasActuallyDragged = FALSE]

\* a callback invocation
Call(name, arg) == [name |-> name, arg |-> arg]

\* handleMove, line 121-122: the movement threshold test
ExceedsMovement(deltaX, deltaY) ==
  Abs(deltaX) > MOVEMENT_DETECTION_THRESHOLD
    \/ Abs(deltaY) > MOVEMENT_DETECTION_THRESHOLD

\* handleMove, lines 121-124: hasActuallyDragged is set, never cleared
hasMovedNow(st, deltaX, deltaY) == ExceedsMovement(deltaX, deltaY)
hasMovedAfter(st, deltaX, deltaY) ==
  st.hasActuallyDragged \/ ExceedsMovement(deltaX, deltaY)

\* handleMove, line 127: the horizontal-dominance test
IsHorizontalOrEqual(deltaX, deltaY) == Abs(deltaX) >= Abs(deltaY)
IsHorizontal(deltaX, deltaY) == Abs(deltaX) > Abs(deltaY)

\* handleMove, line 132 / handleEnd, line 165: direction of a distance
DirectionOfSign(d) == IF d > 0 THEN 1 ELSE -1
Direction(d) == IF d > 0 THEN -1 ELSE 1

\* handleMove, line 131: the swipe threshold test
ReachesSwipeStrict(acc) == Abs(acc) > SWIPE_THRESHOLD
ReachesSwipe(acc) == Abs(acc) >= SWIPE_THRESHOLD

\* handleMove(event).  ret is what onSwipe returns, thr whether it throws.
\* Result: the new state, the calls made, the value returned ("null",
\* "pd" for {preventDefault: true}, or onSwipe's own return value) and
\* whether an exception left the method.
handleMove(st, c, ret, thr) ==
  IF ~IsActive(st)
  THEN [state |-> st, calls |-> <<>>, result |-> "null", threw |-> FALSE]
  ELSE
    LET deltaX == c.x - st.startX
        deltaY == c.y - st.startY
        s1 == [st EXCEPT !.hasActuallyDragged =
                           hasMovedAfter(st, deltaX, deltaY)]
    IN IF IsHorizontal(deltaX, deltaY)
       THEN
         LET movement == c.x - s1.lastX
             acc == s1.accumulatedDistance + movement
         IN IF ReachesSwipe(acc)
            THEN [state |-> [s1 EXCEPT !.accumulatedDistance = 0,
                                       !.lastX = c.x],
                  calls |-> <<Call("onSwipe", Direction(acc))>>,
                  result |-> IF thr THEN "none" ELSE ret,
                  threw |-> thr]
            ELSE [state |-> [s1 EXCEPT !.accumulatedDistance = acc,
                                       !.lastX = c.x],
                  calls |-> <<>>, result |-> "pd", threw |-> FALSE]
       ELSE [state |-> s1, calls |-> <<>>, result |-> "null", threw |-> FALSE]

\* handleEnd, line 175: the double-tap window test
IsDoubleTap(timeSinceLastTap) ==
  timeSinceLastTap < TAP_DELAY /\ timeSinceLastTap > 0

\* handleEnd, line 197: the argument the deferred tap passes to onTap
TapArgScreenX(c) == c.x
TapArg(c) == c.clientX

\* setTimeout(cb, TAP_DELAY) at time t; the closure keeps coords.clientX
NewTimerId(ts) ==
  CHOOSE i \in 1..(Cardinality(ts) + 1) :
    /\ \A u \in ts : u.id # i
    /\ \A j \in 1..(i - 1) : \E u \in ts : u.id = j
setTimeout(ts, t, c) ==
  [id |-> NewTimerId(ts), due |-> t + TAP_DELAY, arg |-> TapArg(c)]

\* the state after reset() followed by "lastTapTime = currentTime"
ResetAt(t) == [createInitialState EXCEPT !.lastTapTime = t]

\* One block of handleEnd.  returned: the method was left in this block (by
\* return or by an exception); otherwise control falls to the next block.
Block(returned, st, ts, calls, result, threw) ==
  [returned |-> returned, state |-> st, timers |-> ts, calls |-> calls,
   result |-> result, threw |-> threw]

\* handleEnd, lines 160-172: the drag block
DragBlockNoReturn(st, ts, c, t, thr) ==
  IF ~st.hasActuallyDragged
  THEN Block(FALSE, st, ts, <<>>, "none", FALSE)
  ELSE
    LET dragDistance == c.x - st.startX
        fires == Abs(dragDistance) > DRAG_THRESHOLD
        calls == IF fires THEN <<Call("onDrag", Direction(dragDistance))>>
                 ELSE <<>>
    IN IF fires /\ thr
       THEN Block(TRUE, st, ts, calls, "none", TRUE)
       ELSE Block(FALSE, ResetAt(t), resetTimers(st, ts), calls, "drag", FALSE)
DragBlock(st, ts, c, t, thr) ==
  IF ~st.hasActuallyDragged
  THEN Block(FALSE, st, ts, <<>>, "none", FALSE)
  ELSE
    LET dragDistance == c.x - st.startX
        fires == Abs(dragDistance) > DRAG_THRESHOLD
        calls == IF fires THEN <<Call("onDrag", Direction(dragDistance))>>
                 ELSE <<>>
    IN IF fires /\ thr
       THEN Block(TRUE, st, ts, calls, "none", TRUE)
       ELSE Block(TRUE, ResetAt(t), resetTimers(st, ts), calls, "drag", FALSE)

\* handleEnd, lines 174-188: the double-tap block
DoubleTapBlock(st, ts, timeSinceLastTap, t, thr) ==
  IF ~IsDoubleTap(timeSinceLastTap)
  THEN Block(FALSE, st, ts, <<>>, "none", FALSE)
  ELSE
    LET ts1 == resetTimers(st, ts)
        s1 == [st EXCEPT !.tapTimeout = NULL]
        calls == <<Call("onDoubleTap", 0)>>
    IN IF thr
       THEN Block(TRUE, s1, ts1, calls, "none", TRUE)
       ELSE Block(TRUE, ResetAt(t), resetTimers(s1, ts1), calls,
                  "double-tap", FALSE)

\* handleEnd, lines 190-206: the single-tap block
TapBlock(st, ts, c, t) ==
  LET ts1 == resetTimers(st, ts)
      tm == setTimeout(ts1, t, c)
  IN Block(TRUE,
           [st EXCEPT !.tapTimeout = tm.id, !.lastTapTime = t,
                      !.isDragging = FALSE, !.accumulatedDistance = 0],
           ts1 \cup {tm}, <<>>, "tap", FALSE)

\* handleEnd(event) at time t.  thr: whether the callback it invokes throws.
handleEnd(st, ts, c, t, thr) ==
  IF ~IsActive(st)
  THEN Block(TRUE, st, ts, <<>>, "null", FALSE)
  ELSE
    LET timeSinceLastTap == t - st.lastTapTime
        d == DragBlock(st, ts, c, t, thr)
    IN IF d.returned THEN d
       ELSE
         LET b == DoubleTapBlock(d.state, d.timers, timeSinceLastTap, t,
                                 thr /\ d.calls = <<>>)
         IN IF b.returned
            THEN [b EXCEPT !.calls = d.calls \o @]
            ELSE LET p == TapBlock(b.state, b.timers, c, t)
                 IN [p EXCEPT !.calls = d.calls \o b.calls \o @]

\* the tap timer's callback, lines 195-200
tapTimerCallback(st, tm, thr) ==
  [state |-> IF thr THEN st ELSE [st EXCEPT !.tapTimeout = NULL],
   calls |-> <<Call("onTap", tm.arg)>>,
   threw |-> thr]

\* ---------------------------------------------------------------- history
\* The program's state is state, lastTouchTime, timers and now.  out and h
\* record what happened, for the properties below; they never influence a
\* step.  Each behaviour records one kind of history, h.obs, chosen at the
\* start:
\*  "out": out, what the last step did
\*     ev ("init", "tick", "dropped", "start", "move", "end", "dblclick",
\*     "timer"), chan ("touch", "mouse": the listener's channel), calls (the callbacks invoked, in order), result (the value
\*     handleMove / handleEnd returned), threw (an exception left the
\*     listener or the timer callback), horiz (a move sample that was
\*     horizontal-dominant and arrived while active)
\*  "str": h.str, the current gesture stream: one processed start, the moves
\*     after it and the first processed end
\*     ended, swipes / ends (the onSwipe calls and the onDrag / onDoubleTap
\*     calls made for it), and while the stream is open: x (the last sample),
\*     dir (0 no sample yet, 1 right, -1 left, 2 not monotone or not
\*     horizontal-dominant throughout), step (0 none yet, the common size of
\*     all samples, -1 when they differ), dist (sum of the samples' sizes)
\*     h.pend, the stream that scheduled the tap timer last: id (of the
\*     timer), swipes, ends (the onDrag / onDoubleTap / onTap calls made for
\*     it)
\*  "tap": h.tap, the tap timer scheduled last
\*     id, x (clientX of the end event), abandoned (a start was processed
\*     since), quiet (no start or end was processed since), fired (how often
\*     it called onTap), arg (what it passed to onTap)
\*  "pair": h.last and h.prev, the last two completed gestures
\*     eligible (never moved beyond the movement threshold), time (of the
\*     end, 0: none), gap (to the end before, at most TAP_DELAY), taps / dts
\*     (onTap / onDoubleTap calls made for it; a dblclick counts for the
\*     gesture it follows), dtEnd (handleEnd called onDoubleTap), fresh (no
\*     start and no dblclick since), chan (the channel of its end event),
\*     threw (a callback has thrown: the pair history ends there)
\*     h.own, the tap timer scheduled last: id, age (0: of h.last, 1: of
\*     h.prev, 2: older)
\*  "gest": h.gest, the gesture since the last processed start and the step
\*     taken last
\*     ev ("none", "start", "move", "end", "other"), vert (every sample so
\*     far had |deltaY| >= |deltaX|), moved (some sample had |deltaX| or
\*     |deltaY| beyond the movement threshold); of a move that called
\*     onSwipe: cross (the
\*     accumulated distance that reached the threshold); of an end: was
\*     (moved, before it), had (a tap timer was live before it), dx (end x
\*     minus start x), sched (it scheduled a timer); calls, result, threw of
\*     the step.  vert and moved are cleared by the end.
\*  "rel": h.rel, the mouse gesture since the last processed start
\*     phase ("none", "down": the start was a mousedown, "released": a
\*     mouseup has been delivered since), how (what the first such mouseup
\*     did: "dropped" by its listener, "ended" by handleEnd, "threw" in
\*     handleEnd), swiped (a mousemove after the release called onSwipe)
\*  "run": h.run, the current run of rapid taps.  A tap is a processed
\*     start followed by a processed end with no sample beyond the movement
\*     threshold between them; the first tap of a run ends 300 ms or more
\*     after the gesture before it, every other one more than 0 and less
\*     than 300 ms after the tap before it
\*     n (taps so far; 0: no run, or more than MaxRun taps), dts (onDoubleTap
\*     calls handleEnd made for them), tapped (a timer they scheduled called
\*     onTap), ids (the timers they scheduled), time (of the last end of a
\*     gesture, 0: none), open / moved (a start was processed since the last
\*     end / a sample since then was beyond the threshold), threw (a
\*     callback invoked for the run has thrown)
\* ------------------------------------------------------------ navigation
\* navigationState.js, the handlers of eventHandlers.js and the wrappers of
\* displayManager.js:406-451 that bind them together.  data.js (categories,
\* chapterCounts) is not part of the sources; the library below is a few
\* books of the canon in canonical order with their chapter counts, and
\* allBooks is its first NBooks entries.  Book indexes are 0-based as in the
\* code.  The rendering done by the display functions is not modelled.
NBooks == 6

Library == <<"Ruth", "Joel", "Obadiah", "Haggai", "James", "2 John", "Jude">>

chapterCounts ==
  [b \in {Library[i] : i \in 1..Len(Library)} |->
     CASE b = "Ruth" -> 4
       [] b = "Joel" -> 3
       [] b = "Obadiah" -> 1
       [] b = "Haggai" -> 2
       [] b = "James" -> 5
       [] b = "2 John" -> 1
       [] b = "Jude" -> 1]

\* buildAllBooks: one entry per book, in the order of the categories
allBooks == [i \in 1..NBooks |-> [book |-> Library[i]]]

\* ------------------------------------------------------------ event bus
\* eventBus.js.  A listener is known by the number of its registration;
\* made[id] tells how it was registered and for which event.  events maps
\* an event name to its array of listeners (no entry and an empty array
\* behave alike in emit and listenerCount).  stack holds the emits in
\* progress, the innermost last: forEach reads the length of the array once
\* and then visits the indexes 0 .. length - 1 that the array still has.
MaxListeners == 3
MaxDepth == 2

EventNames == {"chapter:changed"}
\* the data of an emit made by application code, and of one made by a
\* listener
Data == [app |-> "d1", listener |-> "d2"]

InitialBus ==
  [events |-> [e \in EventNames |-> <<>>], made |-> <<>>, stack |-> <<>>]

\* calls[id]: the invocations of listener id, counted up to 2; cancelled:
\* the listeners whose unsubscribe function was called before they were
\* ever invoked; emitters: the listeners that emitted from inside their
\* callback; last: the emit that returned last
NoEmit ==
  [event |-> "none", data |-> "none", by |-> 0, snapshot |-> <<>>,
   invoked |-> <<>>, threw |-> {}, removed |-> FALSE]

NoBusHistory ==
  [calls |-> <<>>, cancelled |-> {}, emitters |-> {}, last |-> NoEmit]

Holds(seq, x) == \E i \in 1..Len(seq) : seq[i] = x

Without(seq, x) ==
  LET Keep(y) == y # x IN SelectSeq(seq, Keep)

\* on(eventName, callback): push; once(eventName, callback) is on() with
\* the wrapper of line 43 as the callback
subscribe(b, eventName, kind) ==
  [b EXCEPT !.events[eventName] = Append(@, Len(b.made) + 1),
            !.made = Append(@, [kind |-> kind, event |-> eventName])]

on(b, eventName) == subscribe(b, eventName, "on")

once(b, eventName) == subscribe(b, eventName, "once")

\* the function on() returns: splice the callback out of the array of its
\* event, if it is there
unsubscribe(b, id) ==
  [b EXCEPT !.events[b.made[id].event] = Without(@, id)]

\* the emits in progress over the array a listener is spliced out of have
\* lost an element (the observer "bus" follows what each emit does, the
\* observer "once" what each listener sees)
Spliced(b, id) ==
  IF h.obs = "bus" /\ Holds(b.events[b.made[id].event], id)
  THEN [unsubscribe(b, id) EXCEPT
          !.stack = [i \in DOMAIN b.stack |->
                       IF b.stack[i].event = b.made[id].event
                       THEN [b.stack[i] EXCEPT !.removed = TRUE]
                       ELSE b.stack[i]]]
  ELSE unsubscribe(b, id)

\* off(eventName)
off(b, eventName) == [b EXCEPT !.events[eventName] = <<>>]

listenerCount(b, eventName) == Len(b.events[eventName])

\* emit(eventName, data) begins: the array and its length are read
Frame(b, eventName, data, by) ==
  [event |-> eventName, data |-> data, k |-> 0,
   len |-> Len(b.events[eventName]), by |-> by,
   snapshot |-> IF h.obs = "bus" THEN b.events[eventName] ELSE <<>>,
   invoked |-> <<>>, threw |-> {}, removed |-> FALSE]

beginEmit(b, eventName, data, by) ==
  [b EXCEPT !.stack = Append(@, Frame(b, eventName, data, by))]

NeverUnsubscribes(kind) == FALSE

\* the wrapper of once() calls unsubscribe() before the callback
UnsubscribesFirst(kind) == kind = "once"

\* what a callback does when invoked: return, throw, call the unsubscribe
\* function of a listener, subscribe another listener, emit the event again
Behaviours == {"return", "throw", "unsubscribe", "on", "emit"}

\* ---------------------------------------------------------- book names
\* A book name is known to the model by its spelling, one character per
\* element, so that the regular expressions and comparisons of
\* bookDataUtils.js are computed character by character.
Spelling ==
  [b \in {Library[i] : i \in 1..Len(Library)} |->
     CASE b = "Ruth" -> <<"R", "u", "t", "h">>
       [] b = "Joel" -> <<"J", "o", "e", "l">>
       [] b = "Obadiah" -> <<"O", "b", "a", "d", "i", "a", "h">>
       [] b = "Haggai" -> <<"H", "a", "g", "g", "a", "i">>
       [] b = "James" -> <<"J", "a", "m", "e", "s">>
       [] b = "2 John" -> <<"2", " ", "J", "o", "h", "n">>
       [] b = "Jude" -> <<"J", "u", "d", "e">>]

UpperCase ==
  <<"A", "B", "C", "D", "E", "F", "G", "H", "I", "J", "K", "L", "M",
    "N", "O", "P", "Q", "R", "S", "T", "U", "V", "W", "X", "Y", "Z">>

LowerCase ==
  <<"a", "b", "c", "d", "e", "f", "g", "h", "i", "j", "k", "l", "m",
    "n", "o", "p", "q", "r", "s", "t", "u", "v", "w", "x", "y", "z">>

Digits == <<"0", "1", "2", "3", "4", "5", "6", "7", "8", "9">>

\* the position of an element in a sequence that holds it once
IndexIn(seq, c) == CHOOSE i \in 1..Len(seq) : seq[i] = c

IsUpper(c) == \E i \in 1..Len(UpperCase) : UpperCase[i] = c
IsLower(c) == \E i \in 1..Len(LowerCase) : LowerCase[i] = c
IsDigit(c) == \E i \in 1..Len(Digits) : Digits[i] = c
IsSpace(c) == c = " "

\* no value: what ?.[0] gives for a name without a capital letter
UNDEFINED == "undefined"

\* bookName.match(/[A-Z]/)?.[0], on a spelling
FirstCapital(chars) ==
  IF \E i \in 1..Len(chars) : IsUpper(chars[i])
  THEN chars[CHOOSE i \in 1..Len(chars) :
               /\ IsUpper(chars[i])
               /\ \A j \in 1..(i - 1) : ~IsUpper(chars[j])]
  ELSE UNDEFINED

getFirstAlphabeticChar(bookName) == FirstCapital(Spelling[bookName])

\* the number of leading digits (or, digit being false, blanks) of chars
RECURSIVE LeadingRun(_, _)
LeadingRun(chars, digit) ==
  IF chars = <<>> THEN 0
  ELSE IF (IF digit THEN IsDigit(Head(chars)) ELSE IsSpace(Head(chars)))
  THEN 1 + LeadingRun(Tail(chars), digit)
  ELSE 0

Drop(chars, n) == SubSeq(chars, n + 1, Len(chars))

\* name.replace(/^\d+\s*/, ''): leading digits, then the blanks after them
BaseName(chars) ==
  LET d == LeadingRun(chars, TRUE) IN
  IF d = 0 THEN chars
  ELSE Drop(chars, d + LeadingRun(Drop(chars, d), FALSE))

\* the collation order of the characters book names are made of: blanks
\* before digits before letters, letters in alphabetical order whatever
\* their case
CollationKey(c) ==
  IF IsSpace(c) THEN 0
  ELSE IF IsDigit(c) THEN IndexIn(Digits, c)
  ELSE IF IsLower(c) THEN Len(Digits) + IndexIn(LowerCase, c)
  ELSE Len(Digits) + IndexIn(UpperCase, c)

\* between spellings equal but for case, the lower case comes first
CaseKey(c) == IF IsUpper(c) THEN 1 ELSE 0

Sign(n) == IF n < 0 THEN -1 ELSE IF n > 0 THEN 1 ELSE 0

RECURSIVE CompareBy(_, _, _)
CompareBy(a, b, byCase) ==
  IF a = <<>> /\ b = <<>> THEN 0
  ELSE IF a = <<>> THEN -1
  ELSE IF b = <<>> THEN 1
  ELSE LET ka == IF byCase THEN CaseKey(Head(a)) ELSE CollationKey(Head(a))
           kb == IF byCase THEN CaseKey(Head(b)) ELSE CollationKey(Head(b))
       IN IF ka # kb THEN Sign(ka - kb)
          ELSE CompareBy(Tail(a), Tail(b), byCase)

\* a.localeCompare(b)
localeCompare(a, b) ==
  IF CompareBy(a, b, FALSE) # 0 THEN CompareBy(a, b, FALSE)
  ELSE CompareBy(a, b, TRUE)

\* the number a run of digits spells
RECURSIVE NumberOf(_, _)
NumberOf(chars, n) ==
  IF n = 0 THEN 0
  ELSE 10 * NumberOf(chars, n - 1) + (IndexIn(Digits, chars[n]) - 1)

\* a.localeCompare(b, undefined, { numeric: true }): runs of digits compare
\* as the numbers they spell
RECURSIVE CompareNumeric(_, _)
CompareNumeric(a, b) ==
  IF a = <<>> /\ b = <<>> THEN 0
  ELSE IF a = <<>> THEN -1
  ELSE IF b = <<>> THEN 1
  ELSE LET da == LeadingRun(a, TRUE)
           db == LeadingRun(b, TRUE)
       IN IF da > 0 /\ db > 0
          THEN IF NumberOf(a, da) # NumberOf(b, db)
               THEN Sign(NumberOf(a, da) - NumberOf(b, db))
               ELSE CompareNumeric(Drop(a, da), Drop(b, db))
          ELSE IF CollationKey(Head(a)) # CollationKey(Head(b))
          THEN Sign(CollationKey(Head(a)) - CollationKey(Head(b)))
          ELSE CompareNumeric(Tail(a), Tail(b))

\* the comparator of sortBooksByName, on two book names
compareBooks(aName, bName) ==
  LET aBase == BaseName(Spelling[aName])
      bBase == BaseName(Spelling[bName])
  IN IF aBase = bBase
     THEN CompareNumeric(Spelling[aName], Spelling[bName])
     ELSE localeCompare(aBase, bBase)

\* Array.prototype.sort with that comparator, on entries {name, index}: a
\* stable sort, here by insertion
RECURSIVE InsertBook(_, _)
InsertBook(sorted, entry) ==
  IF sorted = <<>> THEN <<entry>>
  ELSE IF compareBooks(entry.name, Head(sorted).name) < 0
  THEN <<entry>> \o sorted
  ELSE <<Head(sorted)>> \o InsertBook(Tail(sorted), entry)

RECURSIVE sortBooksByName(_)
sortBooksByName(books) ==
  IF books = <<>> THEN <<>>
  ELSE InsertBook(sortBooksByName(SubSeq(books, 1, Len(books) - 1)),
                  books[Len(books)])

\* -------------------------------------------------- letter to book index
\* buildLetterToBookIndex(allBooks), on a list of items {book}.  The object
\* it builds is a function from the letters that have an entry.
MaxList == 3

NoEntries == [letter \in {} |-> 0]

\* !letterToBookIndex[firstChar]: no entry (undefined), or the entry 0
Falsy(map, letter) == letter \notin DOMAIN map \/ map[letter] = 0

\* letterToBookIndex[firstChar] = index
Assign(map, letter, index) ==
  [c \in DOMAIN map \cup {letter} |-> IF c = letter THEN index ELSE map[c]]

\* the object after the first n items of forEach (index is 0-based)
RECURSIVE LetterIndexAfter(_, _)
LetterIndexAfter(books, n) ==
  IF n = 0 THEN NoEntries
  ELSE LET map == LetterIndexAfter(books, n - 1)
           firstChar == getFirstAlphabeticChar(books[n].book)
       IN IF firstChar # UNDEFINED /\ Falsy(map, firstChar)
          THEN Assign(map, firstChar, n - 1)
          ELSE map

buildLetterToBookIndex(books) == LetterIndexAfter(books, Len(books))

\* the book lists the function is run on: every list of up to MaxList
\* different books of the library
BookLists ==
  {books \in UNION {[1..n -> {[book |-> Library[i]] : i \in 1..Len(Library)}] :
                      n \in 0..MaxList} :
     \A i, j \in DOMAIN books : i # j => books[i] # books[j]}

NotBuilt == [built |-> FALSE, map |-> NoEntries]

NoLetterRun == [allBooks |-> <<>>, result |-> NotBuilt]

LetterRuns(obs) ==
  IF obs = "letters"
  THEN {[allBooks |-> books, result |-> NotBuilt] : books \in BookLists}
  ELSE {NoLetterRun}

MODES == [BOOKS |-> "books", CHAPTERS |-> "chapters", READING |-> "reading"]

\* the slider's range in BOOKS mode: the code writes 65, the last index of
\* the 66 books of data.js
LastBookIndex == Len(allBooks) - 1

\* lastSelectedLetter: null
NoLetter == "null"

\* the state object, and the slider element the handlers write to
InitialNav ==
  [currentMode |-> MODES.BOOKS, currentBookIndex |-> 0, currentChapter |-> 1,
   lastSelectedLetter |-> NoLetter, letterCycleIndex |-> 0,
   slider |-> [min |-> 0, max |-> LastBookIndex, value |-> 0],
   emitted |-> <<>>]

\* eventBus.js: Events
Events ==
  [BOOK_CHANGED |-> "book:changed", CHAPTER_CHANGED |-> "chapter:changed",
   MODE_CHANGED |-> "mode:changed"]

\* eventBus.emit(name, {old, new}) called by the running handler; emitted
\* holds the calls of the handler that ran last, in order
emit(nv, name, old, new) ==
  [nv EXCEPT !.emitted = Append(@, [name |-> name, old |-> old, new |-> new])]

\* nav as a handler finds it: nothing emitted yet
Quiet(nv) == [nv EXCEPT !.emitted = <<>>]

\* chapterCounts[allBooks[getCurrentBookIndex()].book]
chaptersOf(nv) == chapterCounts[allBooks[nv.currentBookIndex + 1].book]

setCurrentMode(nv, mode) ==
  LET set == [nv EXCEPT !.currentMode = mode] IN
  IF nv.currentMode # mode
  THEN emit(set, Events.MODE_CHANGED, nv.currentMode, mode)
  ELSE set

setCurrentBookIndex(nv, index) ==
  LET set == [nv EXCEPT !.currentBookIndex = index] IN
  IF nv.currentBookIndex # index
  THEN emit(set, Events.BOOK_CHANGED, nv.currentBookIndex, index)
  ELSE set

setCurrentChapter(nv, chapter) ==
  LET set == [nv EXCEPT !.currentChapter = chapter] IN
  IF nv.currentChapter # chapter
  THEN emit(set, Events.CHAPTER_CHANGED, nv.currentChapter, chapter)
  ELSE set

\* updateDisplay stores the index it renders
updateDisplay(nv, index) == setCurrentBookIndex(nv, index)

enterChapterMode(nv) ==
  [nv EXCEPT !.currentMode = MODES.CHAPTERS,
             !.currentChapter = 1,
             !.slider = [min |-> 1, max |-> chaptersOf(nv), value |-> 1]]

exitChapterMode(nv) ==
  updateDisplay(
    [nv EXCEPT !.currentMode = MODES.BOOKS,
               !.slider = [min |-> 0, max |-> LastBookIndex,
                           value |-> nv.currentBookIndex]],
    nv.currentBookIndex)

enterReadingMode(nv) == [nv EXCEPT !.currentMode = MODES.READING]

exitReadingModeToBooks(nv) == [nv EXCEPT !.currentMode = MODES.BOOKS]

exitReadingMode(nv) == [nv EXCEPT !.currentMode = MODES.CHAPTERS]

\* newIndex >= 0 && newIndex < allBooks.length
BookInRange(newIndex) == newIndex >= 0 /\ newIndex < Len(allBooks)

ChapterAtMost(newChapter, chapters) == newChapter <= chapters

\* newChapter >= 1 && newChapter <= chapters
ChapterInRange(newChapter, chapters) ==
  newChapter >= 1 /\ newChapter <= chapters

IsLeftSideOrMiddle(clientX, screenWidth) == 2 * clientX <= screenWidth

\* clientX < screenWidth / 2, the division being exact
IsLeftSide(clientX, screenWidth) == 2 * clientX < screenWidth

handleSwipe(nv, direction) ==
  IF nv.currentMode = MODES.BOOKS
  THEN LET newIndex == nv.currentBookIndex + direction IN
       IF BookInRange(newIndex)
       THEN updateDisplay(
              [setCurrentBookIndex(nv, newIndex) EXCEPT
                 !.slider.value = newIndex],
              newIndex)
       ELSE nv
  ELSE IF nv.currentMode = MODES.CHAPTERS
  THEN LET newChapter == nv.currentChapter + direction IN
       IF ChapterInRange(newChapter, chaptersOf(nv))
       THEN [setCurrentChapter(nv, newChapter) EXCEPT
               !.slider.value = newChapter]
       ELSE nv
  ELSE nv

handleDrag(nv, direction) ==
  IF nv.currentMode # MODES.READING THEN nv
  ELSE LET newChapter == nv.currentChapter + direction IN
       IF chaptersOf(nv) > 1 /\ ChapterInRange(newChapter, chaptersOf(nv))
       THEN setCurrentChapter(nv, newChapter)
       ELSE nv

handleTap(nv, clientX, screenWidth) ==
  IF nv.currentMode = MODES.BOOKS THEN enterChapterMode(nv)
  ELSE IF nv.currentMode = MODES.CHAPTERS THEN enterReadingMode(nv)
  ELSE IF nv.currentMode = MODES.READING
  THEN LET direction == IF IsLeftSide(clientX, screenWidth) THEN -1 ELSE 1
           newChapter == nv.currentChapter + direction
       IN IF chaptersOf(nv) > 1 /\ ChapterInRange(newChapter, chaptersOf(nv))
          THEN setCurrentChapter(nv, newChapter)
          ELSE nv
  ELSE nv

handleDoubleTap(nv) ==
  IF nv.currentMode = MODES.CHAPTERS THEN exitChapterMode(nv)
  ELSE IF nv.currentMode = MODES.READING THEN exitReadingMode(nv)
  ELSE nv

\* allBooks.findIndex(b => b.book === book), 0-based
findIndex(book) ==
  (CHOOSE i \in 1..Len(allBooks) :
     /\ allBooks[i].book = book
     /\ \A j \in 1..(i - 1) : allBooks[j].book # book) - 1

\* the books whose first capital is the letter, as {name, index}, sorted
booksWithLetter(letter) ==
  LET Starts(item) == getFirstAlphabeticChar(item.book) = letter
      filtered == SelectSeq(allBooks, Starts)
  IN sortBooksByName(
       [i \in 1..Len(filtered) |->
          [name |-> filtered[i].book, index |-> findIndex(filtered[i].book)]])

NextCycleIndexSame(cycleIndex, length) == cycleIndex % length

\* (getLetterCycleIndex() + 1) % booksWithLetter.length
NextCycleIndex(cycleIndex, length) == (cycleIndex + 1) % length

handleAlphabetClick(nv, letter) ==
  LET books == booksWithLetter(letter) IN
  IF Len(books) > 0
  THEN LET cycled ==
             IF letter = nv.lastSelectedLetter
             THEN [nv EXCEPT !.letterCycleIndex =
                               NextCycleIndex(@, Len(books))]
             ELSE [nv EXCEPT !.letterCycleIndex = 0,
                             !.lastSelectedLetter = letter]
           selectedBook == books[cycled.letterCycleIndex + 1]
       IN updateDisplay(
            [setCurrentBookIndex(cycled, selectedBook.index) EXCEPT
               !.slider.value = selectedBook.index],
            selectedBook.index)
  ELSE nv

\* the click listener of the alphabet bar, the click being on a letter
alphabetClick(nv, letter) ==
  IF nv.currentMode = MODES.BOOKS THEN handleAlphabetClick(nv, letter)
  ELSE nv

\* a listener that takes the slider's value for a book index in every mode
sliderInputAsBook(nv, value) ==
  updateDisplay([nv EXCEPT !.slider.value = value], value)

\* the slider's "input" listener, the user having moved it to value
sliderInput(nv, value) ==
  LET moved == [nv EXCEPT !.slider.value = value] IN
  IF nv.currentMode = MODES.BOOKS
  THEN updateDisplay(moved, value)
  ELSE setCurrentChapter(moved, value)

\* the click listener of the book list, the click being on the item of the
\* book at bookIndex
bookClick(nv, bookIndex) ==
  IF nv.currentMode = MODES.BOOKS
  THEN enterChapterMode(
         updateDisplay(
           [setCurrentBookIndex(nv, bookIndex) EXCEPT
              !.slider.value = bookIndex],
           bookIndex))
  ELSE nv

NoNav ==
  [op |-> "none", arg |-> 0, width |-> 0, letter |-> NoLetter, clicks |-> 0,
   before |-> InitialNav]

Observers == {"out", "str", "tap", "pair", "gest"}

Sat(n) == Min(n, MaxCount)
SatEnds(n) == Min(n, MaxEnds)

NoStream ==
  [ended |-> TRUE, swipes |-> 0, ends |-> 0, x |-> 0, dir |-> 2, step |-> 0,
   dist |-> 0]
NoPend == [id |-> NULL, swipes |-> 0, ends |-> 0]
NoTap ==
  [id |-> NULL, x |-> 0, abandoned |-> FALSE, quiet |-> FALSE, fired |-> 0,
   arg |-> 0]
NoGesture ==
  [eligible |-> FALSE, time |-> 0, gap |-> TAP_DELAY, taps |-> 0, dts |-> 0,
   dtEnd |-> FALSE, fresh |-> FALSE, chan |-> "none", threw |-> FALSE]
NoPrev == [eligible |-> FALSE, taps |-> 0]
NoOwn == [id |-> NULL, age |-> 0]
NoGest ==
  [ev |-> "none", vert |-> FALSE, moved |-> FALSE,
   cross |-> 0, was |-> FALSE, had |-> FALSE, dx |-> 0, sched |-> FALSE,
   calls |-> <<>>, result |-> "none", threw |-> FALSE]

NoRun ==
  [n |-> 0, dts |-> 0, tapped |-> FALSE, ids |-> {}, time |-> 0,
   open |-> FALSE, moved |-> FALSE, threw |-> FALSE]
NoRel == [phase |-> "none", how |-> "none", swiped |-> FALSE]

NoOut ==
  [ev |-> "init", chan |-> "none", calls |-> <<>>, result |-> "none",
   threw |-> FALSE, horiz |-> FALSE]

Count(calls, names) ==
  Cardinality({i \in 1..Len(calls) : calls[i].name \in names})

TimerIds(ts) == {t.id : t \in ts}

\* the history h.obs records is updated, the rest is left alone
\* (the pair history ends when a callback throws)
Record(str, pend, tap, last, prev, own) ==
  LET over == h.last.threw \/ last.threw
  IN [obs |-> h.obs, gest |-> h.gest, rel |-> h.rel, run |-> h.run,
      str |-> IF h.obs = "str" THEN str ELSE h.str,
      pend |-> IF h.obs = "str" THEN pend ELSE h.pend,
      tap |-> IF h.obs = "tap" THEN tap ELSE h.tap,
      last |-> IF h.obs # "pair" THEN h.last
               ELSE IF over THEN [NoGesture EXCEPT !.threw = TRUE] ELSE last,
      prev |-> IF h.obs # "pair" THEN h.prev
               ELSE IF over THEN NoPrev ELSE prev,
      own |-> IF h.obs # "pair" THEN h.own
              ELSE IF over THEN NoOwn ELSE own]

\* a callback threw, or not
Threw(last, thr) == [last EXCEPT !.threw = @ \/ thr]

\* a start was processed
HStart(c) ==
  Record([NoStream EXCEPT !.ended = FALSE, !.x = c.x, !.dir = 0],
         IF h.pend.id \notin TimerIds(timers) THEN NoPend ELSE h.pend,
         IF h.tap.id \notin TimerIds(timers) THEN NoTap
         ELSE [h.tap EXCEPT !.abandoned = TRUE, !.quiet = FALSE],
         [h.last EXCEPT !.fresh = FALSE], h.prev,
         IF h.own.id \notin TimerIds(timers) THEN NoOwn ELSE h.own)

\* a move sample was processed by handleMove (r its outcome) while active
HMove(c, r) ==
  IF h.str.ended
  THEN Record(h.str, h.pend, h.tap, Threw(h.last, r.threw), h.prev, h.own)
  ELSE
    LET dx == c.x - state.startX
        dy == c.y - state.startY
        m == IF h.str.dir = 2 THEN 0 ELSE c.x - h.str.x
        sgn == IF m > 0 THEN 1 ELSE IF m < 0 THEN -1 ELSE 0
        dir == IF Abs(dx) <= Abs(dy) \/ sgn = 0 THEN 2
               ELSE IF h.str.dir = 0 \/ h.str.dir = sgn THEN sgn ELSE 2
        step == IF h.str.step = 0 \/ h.str.step = Abs(m) THEN Abs(m) ELSE -1
        sw == h.str.swipes + Count(r.calls, {"onSwipe"})
    IN Record(IF dir = 2
              THEN [h.str EXCEPT !.x = 0, !.dir = 2, !.step = 0, !.dist = 0,
                                 !.swipes = SatEnds(sw)]
              ELSE [h.str EXCEPT !.x = c.x, !.dir = dir, !.step = step,
                                 !.dist = @ + Abs(m), !.swipes = Sat(sw)],
              h.pend, h.tap, Threw(h.last, r.threw), h.prev, h.own)

\* an end was processed by handleEnd (r its outcome) while active, at now
HEnd(chan, c, r) ==
  LET ids == TimerIds(r.timers)
      dts == Count(r.calls, {"onDoubleTap"})
      ends == IF h.str.ended THEN 0
              ELSE SatEnds(h.str.ends
                           + Count(r.calls, {"onDrag", "onDoubleTap"}))
  IN Record(IF h.str.ended THEN h.str
            ELSE [NoStream EXCEPT !.swipes = SatEnds(h.str.swipes),
                                  !.ends = ends],
            IF r.result = "tap"
            THEN [id |-> r.state.tapTimeout,
                  swipes |-> IF h.str.ended THEN 0 ELSE SatEnds(h.str.swipes),
                  ends |-> ends]
            ELSE IF h.pend.id \notin ids THEN NoPend ELSE h.pend,
            IF r.result = "tap"
            THEN [id |-> r.state.tapTimeout, x |-> c.clientX,
                  abandoned |-> FALSE, quiet |-> TRUE, fired |-> 0, arg |-> 0]
            ELSE IF h.tap.id \notin ids THEN NoTap
            ELSE [h.tap EXCEPT !.quiet = FALSE],
            [eligible |-> ~state.hasActuallyDragged, time |-> now,
             gap |-> IF h.last.time = 0 THEN TAP_DELAY
                     ELSE Min(now - h.last.time, TAP_DELAY),
             taps |-> 0, dts |-> SatEnds(dts), dtEnd |-> dts > 0,
             fresh |-> TRUE, chan |-> chan,
             threw |-> h.last.threw \/ r.threw],
            [eligible |-> h.last.eligible, taps |-> h.last.taps],
            IF r.result = "tap" THEN [id |-> r.state.tapTimeout, age |-> 0]
            ELSE IF h.own.id \notin ids THEN NoOwn
            ELSE [h.own EXCEPT !.age = Min(@ + 1, 2)])

\* the tap timer tm fired and called onTap(arg)
HFire(tm, arg, thr) ==
  Record(h.str,
         IF tm.id = h.pend.id THEN [h.pend EXCEPT !.ends = SatEnds(@ + 1)]
         ELSE h.pend,
         IF tm.id = h.tap.id
         THEN [h.tap EXCEPT !.fired = SatEnds(@ + 1), !.arg = arg]
         ELSE h.tap,
         IF tm.id = h.own.id /\ h.own.age = 0
         THEN Threw([h.last EXCEPT !.taps = SatEnds(@ + 1)], thr)
         ELSE Threw(h.last, thr),
         IF tm.id = h.own.id /\ h.own.age = 1
         THEN [h.prev EXCEPT !.taps = SatEnds(@ + 1)] ELSE h.prev,
         h.own)

\* the dblclick listener called onDoubleTap; the host delivers a dblclick
\* after the second mouseup of a double click
HDblClick(thr) ==
  Record(h.str, h.pend, h.tap,
         IF h.last.fresh /\ h.last.chan = "mouse"
         THEN Threw([h.last EXCEPT !.dts = SatEnds(@ + 1), !.fresh = FALSE],
                    thr)
         ELSE Threw(h.last, thr),
         h.prev, h.own)

\* the gesture history is recorded with the history rec
WithGest(rec, g) == [rec EXCEPT !.gest = IF h.obs = "gest" THEN g ELSE @]

WithRel(rec, r) == [rec EXCEPT !.rel = IF h.obs = "rel" THEN r ELSE @]

\* a start listener of channel chan called handleStart
RStart(chan) ==
  [NoRel EXCEPT !.phase = IF chan = "mouse" THEN "down" ELSE "none"]

\* a move listener of channel chan called handleMove, with outcome r
RMove(chan, r) ==
  [h.rel EXCEPT !.swiped = @ \/ (/\ h.rel.phase = "released"
                                 /\ chan = "mouse"
                                 /\ Count(r.calls, {"onSwipe"}) > 0)]

\* a mouseup was delivered
RUp(how) ==
  IF h.rel.phase = "down"
  THEN [h.rel EXCEPT !.phase = "released", !.how = how]
  ELSE h.rel

WithRun(rec, r) == [rec EXCEPT !.run = IF h.obs = "run" THEN r ELSE @]

\* a start listener called handleStart
TStart == [h.run EXCEPT !.open = TRUE, !.moved = FALSE]

\* a move listener called handleMove with the sample c
TMove(c) ==
  [h.run EXCEPT !.moved = @ \/ (h.run.open /\
     ExceedsMovement(c.x - state.startX, c.y - state.startY))]

\* an end listener called handleEnd, with outcome r
TEnd(r) ==
  LET gap == now - h.run.time
      dts == Count(r.calls, {"onDoubleTap"})
      ids == TimerIds(r.timers) \ TimerIds(timers)
      over == [NoRun EXCEPT !.time = now]
  IN IF ~h.run.open
     THEN IF r.result = "null" THEN h.run ELSE over
     ELSE IF h.run.moved THEN over
     ELSE IF h.run.time = 0 \/ gap >= TAP_DELAY
     THEN [over EXCEPT !.n = 1, !.dts = dts, !.ids = ids, !.threw = r.threw]
     ELSE IF h.run.n = 0 \/ h.run.n = MaxRun \/ gap = 0 THEN over
     ELSE [over EXCEPT !.n = h.run.n + 1, !.dts = h.run.dts + dts,
                       !.tapped = h.run.tapped, !.ids = h.run.ids \cup ids,
                       !.threw = h.run.threw \/ r.threw]

\* the tap timer tm fired
TFire(tm, thr) ==
  IF tm.id \in h.run.ids
  THEN [h.run EXCEPT !.tapped = TRUE, !.threw = @ \/ thr]
  ELSE h.run

GStart == [NoGest EXCEPT !.ev = "start", !.vert = TRUE]

\* handleMove processed the sample c while active, with outcome r
GMove(c, r) ==
  LET dx == c.x - state.startX
      dy == c.y - state.startY
      fired == Count(r.calls, {"onSwipe"}) > 0
  IN [NoGest EXCEPT
        !.ev = "move",
        !.vert = h.gest.vert /\ Abs(dy) >= Abs(dx),
        !.moved = h.gest.moved \/ Abs(dx) > MOVEMENT_DETECTION_THRESHOLD
                               \/ Abs(dy) > MOVEMENT_DETECTION_THRESHOLD,
        !.cross = IF fired
                  THEN state.accumulatedDistance + (c.x - state.lastX) ELSE 0,
        !.calls = r.calls, !.result = r.result, !.threw = r.threw]

\* handleEnd processed the end event c while active, with outcome r
GEnd(c, r) ==
  [NoGest EXCEPT
     !.ev = "end", !.was = h.gest.moved, !.had = timers # {},
     !.dx = c.x - state.startX, !.sched = r.timers \ timers # {},
     !.calls = r.calls, !.result = r.result, !.threw = r.threw]

\* a timer callback or the dblclick listener ran
GOther == [h.gest EXCEPT !.ev = "other", !.cross = 0, !.was = FALSE,
                         !.had = FALSE, !.dx = 0, !.sched = FALSE,
                         !.calls = <<>>, !.result = "none", !.threw = FALSE]

\* ------------------------------------------------- bibleApiService.js
\* fetchChapter is called at most MaxCalls times
MaxCalls == 3

DEFAULT_TRANSLATION == "BSB"

\* data.js: the API's abbreviation of each book (one book of it; "Enoch"
\* stands for a name that data.js does not have)
bookAbbreviations == [Ruth |-> "RUT"]
BookNames == {"Ruth", "Enoch"}
ChapterNumbers == {1, 2}

\* the server's answer to a request can differ from one request to the next
Versions == {1, 2}

HasAbbreviation(bookName) == bookName \in DOMAIN bookAbbreviations

getCacheKey(translation, book, chapter) == <<translation, book, chapter>>

\* the key fetchChapter computes for its arguments
KeyOf(bookName, chapter, translation) ==
  getCacheKey(translation, bookAbbreviations[bookName], chapter)

\* a Map is the function from its keys to their values
EmptyMap == <<>>
MapSet(map, key, value) ==
  [k \in DOMAIN map \cup {key} |-> IF k = key THEN value ELSE map[k]]
MapHas(map, key) == key \in DOMAIN map

\* what response.json() gives for a request of key answered with version v
ChapterData(key, v) == [chapter |-> key, version |-> v]

\* no key (the book has no abbreviation), no data (nothing returned)
NoKey == <<>>
NoData == ChapterData(NoKey, 0)

\* chapterCache, the calls of fetchChapter in the order they were made, the
\* number of network requests issued, and for the properties: the operation
\* that ran last, chapterCache before it, and per key the data of the latest
\* call that fetched it successfully since the cache was last cleared
\* A call: its arguments; pc, where it stands ("fetch": awaiting fetch(url),
\* "json": awaiting response.json(), "resolved", "rejected"); requested,
\* whether it issued a request; result, what its promise resolved with; and
\* as seen from outside when it was made: known (a call for its key had
\* fetched it successfully), latest (that call's data), failedBefore (a
\* request for its key had failed and none had succeeded)
InitialApi ==
  [chapterCache |-> EmptyMap, calls |-> <<>>, requests |-> 0,
   last |-> [op |-> "none", call |-> 0], before |-> EmptyMap,
   fetched |-> EmptyMap, failed |-> {}]

\* chapterCache.set(cacheKey, data) (line 64), and a cache that forgets
StoresNothing(a, key, data) == a.chapterCache
Stores(a, key, data) == MapSet(a.chapterCache, key, data)

\* chapterCache.clear() (line 164)
Cleared(map) == EmptyMap

\* ---------------------------------------------------- displayManager.js
\* loadChapterSummaries is called at most MaxLoads times, and a waiting
\* call's interval fires at most MaxPolls times before the load completes
MaxLoads == 3
MaxPolls == 2

NoSummaries == "{}"
\* the catch block's flags (lines 63-64), and the same without the
\* "loaded" that prevents the retry
RetryAfterFailure == [loaded |-> FALSE, loading |-> FALSE]
AfterFailure == [loaded |-> TRUE, loading |-> FALSE]

\* the file's content as response.json() gives it
SummariesData == "data"

\* chapterSummaries and its two flags, the calls of loadChapterSummaries in
\* the order they were made, and the number of network requests issued
\* A call: pc ("fetch": awaiting fetch, "json": awaiting response.json(),
\* "poll": waiting on its interval, "resolved"); result; polls, how often
\* its interval has fired; and as seen from outside: inFlight (it was made
\* while the first call awaited its request), flag (chapterSummariesLoaded
\* when it resolved)
\* outcome: how the request ended ("none" yet, "loaded", "notOk", "failed")
InitialSums ==
  [chapterSummaries |-> NoSummaries, chapterSummariesLoaded |-> FALSE,
   chapterSummariesLoading |-> FALSE, calls |-> <<>>, requests |-> 0,
   outcome |-> "none"]

\* --------------------------------------- displayManager.js: rendering
\* at most MaxViews display calls are followed while they are suspended
MaxViews == 3

\* letterDisplay.innerHTML: the book view, the chapter view (title and
\* summary), or the reading view with the spinner, the verses or the error
\* message, each for a book (index) and a chapter (0 in the book view)
Shown(kind, book, chapter) ==
  [kind |-> kind, book |-> book, chapter |-> chapter]

\* what is rendered; the display calls that have been suspended at their
\* await, in the order they were made (fn: "chapter" or "reading"; book and
\* chapter: the values they captured; pc: "load", awaiting the
\* loadChapterSummaries call that issued the request, "poll", awaiting one
\* that waits on its interval, "fetch", awaiting fetchChapter, "done");
\* chapterSummariesLoaded / Loading as one value; the chapters in
\* chapterCache; and the step taken last ("none", "user": an operation of
\* the user, "chapterResumed", "readingResumed": a suspended call resumed)
InitialView ==
  [shown |-> Shown("books", 0, 0), calls |-> <<>>, summaries |-> "none",
   cached |-> {}, last |-> "none"]

\* a call that has run to its end
Done == [fn |-> "none", book |-> 0, chapter |-> 0, pc |-> "done"]

Suspended(v, fn, nv, pc) ==
  [v EXCEPT !.calls = Append(@, [fn |-> fn, book |-> nv.currentBookIndex,
                                 chapter |-> nv.currentChapter, pc |-> pc])]

\* updateDisplay(allBooks, index): synchronous
updateDisplayView(v, nv) ==
  [v EXCEPT !.shown = Shown("books", nv.currentBookIndex, 0)]

\* updateChapterDisplay: nothing is rendered before the await (line 258);
\* when the summaries are loaded the await resumes before any other event
updateChapterDisplay(v, nv) ==
  IF v.summaries = "loaded"
  THEN [v EXCEPT !.shown = Shown("chapters", nv.currentBookIndex,
                                 nv.currentChapter)]
  ELSE IF v.summaries = "loading"
  THEN Suspended(v, "chapter", nv, "poll")
  ELSE [Suspended(v, "chapter", nv, "load") EXCEPT !.summaries = "loading"]

\* updateReadingDisplay: the spinner is rendered, then fetchChapter is
\* awaited (line 331); a cached chapter resumes it before any other event
updateReadingDisplay(v, nv) ==
  IF <<nv.currentBookIndex, nv.currentChapter>> \in v.cached
  THEN [v EXCEPT !.shown = Shown("verses", nv.currentBookIndex,
                                 nv.currentChapter)]
  ELSE [Suspended(v, "reading", nv, "fetch") EXCEPT
          !.shown = Shown("loading", nv.currentBookIndex, nv.currentChapter)]

\* the display callbacks a gesture's handler invokes, in order, given the
\* state before and after it (eventHandlers.js:112-193 and
\* navigationState.js:96-128)
Renders(op, before, after) ==
  LET mode == before.currentMode
      moved == \/ after.currentBookIndex # before.currentBookIndex
               \/ after.currentChapter # before.currentChapter
  IN CASE op = "swipe" ->
            IF ~moved THEN <<>>
            ELSE IF mode = MODES.BOOKS THEN <<"books">> ELSE <<"chapter">>
       [] op = "drag" -> IF moved THEN <<"reading">> ELSE <<>>
       [] op = "tap" ->
            IF mode = MODES.BOOKS THEN <<"chapter">>
            ELSE IF mode = MODES.CHAPTERS \/ moved THEN <<"reading">>
            ELSE <<>>
       [] op = "doubleTap" ->
            IF mode = MODES.CHAPTERS THEN <<"books">>
            ELSE IF mode = MODES.READING THEN <<"chapter">>
            ELSE <<>>

Render(v, nv, fn) ==
  CASE fn = "books" -> updateDisplayView(v, nv)
    [] fn = "chapter" -> updateChapterDisplay(v, nv)
    [] fn = "reading" -> updateReadingDisplay(v, nv)

RECURSIVE RenderAll(_, _, _)
RenderAll(v, nv, fns) ==
  IF fns = <<>> THEN v
  ELSE RenderAll(Render(v, nv, Head(fns)), nv, Tail(fns))

\* a suspended updateChapterDisplay resumes: it renders what it captured
\* (lines 260-283)
ResumedChapter(v, nv, id) ==
  LET c == v.calls[id] IN
  [v EXCEPT !.calls[id] = Done,
            !.shown = Shown("chapters", c.book, c.chapter)]

\* a suspended updateReadingDisplay resumes with the chapter data (lines
\* 332-343) or in its catch block (lines 344-360)
ResumedReading(v, id, ok) ==
  LET c == v.calls[id] IN
  [v EXCEPT !.calls[id] = Done,
            !.shown = Shown(IF ok THEN "verses" ELSE "error",
                            c.book, c.chapter),
            !.cached = IF ok THEN @ \cup {<<c.book, c.chapter>>} ELSE @]

\* ------------------------------------------------------------- the host
\* the state after createGestureHandler, recording the history obs
InitWith(obs) ==
  /\ state = createInitialState
  /\ lastTouchTime = 0
  /\ timers = {}
  /\ now = Epoch
  /\ out = NoOut
  /\ h = [obs |-> obs, str |-> NoStream, pend |-> NoPend, tap |-> NoTap,
          last |-> NoGesture, prev |-> NoPrev, own |-> NoOwn,
          gest |-> NoGest, rel |-> NoRel, run |-> NoRun]
  /\ nav = InitialNav
  /\ navh = NoNav
  /\ bus = InitialBus
  /\ bush = NoBusHistory
  /\ letters \in LetterRuns(obs)
  /\ api = InitialApi
  /\ sums = InitialSums
  /\ view = InitialView

Init == \E obs \in Observers : InitWith(obs)

\* no timer callback is waiting to run
NoDue == \A tm \in timers : now < tm.due

\* the mouse listeners' test for synthetic events, lines 261, 274, 282
IsSynthetic(t, touchTime) == t - touchTime < SYNTHETIC_MOUSE_WINDOW

\* the touchmove listener's test of handleMove's result, line 246
Suppresses(result) == result = "pd"

Ev(ev, chan) == [NoOut EXCEPT !.ev = ev, !.chan = chan]
Out(rec) == IF h.obs = "out" THEN rec ELSE out

\* a listener returned at once: shouldIgnoreEvent, or the synthetic window
DroppedAfterTouchTime(chan) ==
  /\ out' = Out(Ev("dropped", chan))
  /\ lastTouchTime' = IF chan = "touch" THEN now ELSE lastTouchTime
  /\ UNCHANGED <<state, timers, now, h, nav, navh, bus, bush, letters, api, sums, view>>
Dropped(chan) ==
  /\ out' = Out(Ev("dropped", chan))
  /\ UNCHANGED <<state, lastTouchTime, timers, now, h, nav, navh, bus, bush, letters,
                 api, sums, view>>

\* the mouseup listener returned at once
DroppedUp ==
  /\ out' = Out(Ev("dropped", "mouse"))
  /\ h' = WithRel(h, RUp("dropped"))
  /\ UNCHANGED <<state, lastTouchTime, timers, now, nav, navh, bus, bush,
                 letters, api, sums, view>>

\* a start listener called handleStart
Started(chan, c) ==
  /\ state' = handleStart(state, c)
  /\ h' = WithRun(WithRel(WithGest(HStart(c), GStart), RStart(chan)),
                  TStart)
  /\ out' = Out(Ev("start", chan))
  /\ UNCHANGED <<lastTouchTime, timers, now, nav, navh, bus, bush, letters,
                 api, sums, view>>

\* a move listener called handleMove
Moved(chan, c, ret, thr) ==
  LET r == handleMove(state, c, ret, thr)
  IN /\ state' = r.state
     /\ h' = WithRun(WithRel(IF state.isDragging
                              THEN WithGest(HMove(c, r), GMove(c, r))
                              ELSE h,
                              RMove(chan, r)),
                      TMove(c))
     /\ out' = Out([Ev("move", chan) EXCEPT
                  !.calls = r.calls, !.result = r.result, !.threw = r.threw,
                  !.horiz = (state.isDragging
                             /\ Abs(c.x - state.startX) > Abs(c.y - state.startY))])
     /\ UNCHANGED <<lastTouchTime, timers, now, nav, navh, bus, bush, letters,
                    api, sums, view>>

\* an end listener called handleEnd; the touchend listener then records
\* lastTouchTime
Ended(chan, c, thr) ==
  LET r == handleEnd(state, timers, c, now, thr)
  IN /\ state' = r.state
     /\ timers' = r.timers
     /\ h' = WithRun(WithRel(IF state.isDragging
                              THEN WithGest(HEnd(chan, c, r), GEnd(c, r))
                              ELSE h,
                              IF chan # "mouse" THEN h.rel
                              ELSE IF r.threw THEN RUp("threw")
                              ELSE RUp("ended")),
                      TEnd(r))
     /\ lastTouchTime' = IF chan = "touch" /\ ~r.threw THEN now
                         ELSE lastTouchTime
     /\ out' = Out([Ev("end", chan) EXCEPT
                  !.calls = r.calls, !.result = r.result, !.threw = r.threw])
     /\ UNCHANGED <<now, nav, navh, bus, bush, letters, api, sums, view>>

\* what a callback returns and whether it throws are inputs of a step only
\* when the step calls a callback
CallbackInput(dropped, calls, ret, thr) ==
  (dropped \/ calls = <<>>) => (ret = "undefined" /\ ~thr)

TouchStart(c, ign) ==
  /\ NoDue
  /\ IF ign THEN Dropped("touch") ELSE Started("touch", c)

TouchMove(c, ign, ret, thr) ==
  /\ NoDue
  /\ CallbackInput(ign, handleMove(state, c, ret, FALSE).calls, ret, thr)
  /\ IF ign THEN Dropped("touch") ELSE Moved("touch", c, ret, thr)

TouchEnd(c, ign, thr) ==
  /\ NoDue
  /\ CallbackInput(ign, handleEnd(state, timers, c, now, FALSE).calls,
                   "undefined", thr)
  /\ IF ign THEN Dropped("touch") ELSE Ended("touch", c, thr)

MouseDown(c, ign) ==
  /\ NoDue
  /\ IF ign \/ IsSynthetic(now, lastTouchTime) THEN Dropped("mouse")
     ELSE Started("mouse", c)

MouseMove(c, ign, ret, thr) ==
  /\ NoDue
  /\ CallbackInput(ign, handleMove(state, c, ret, FALSE).calls, ret, thr)
  /\ IF ign THEN Dropped("mouse") ELSE Moved("mouse", c, ret, thr)

MouseUp(c, ign, thr) ==
  /\ NoDue
  /\ CallbackInput(ign \/ IsSynthetic(now, lastTouchTime),
                   handleEnd(state, timers, c, now, FALSE).calls,
                   "undefined", thr)
  /\ IF ign \/ IsSynthetic(now, lastTouchTime) THEN DroppedUp
     ELSE Ended("mouse", c, thr)

DblClick(ign, thr) ==
  /\ NoDue
  /\ CallbackInput(ign \/ IsSynthetic(now, lastTouchTime),
                   <<Call("onDoubleTap", 0)>>, "undefined", thr)
  /\ IF ign \/ IsSynthetic(now, lastTouchTime) THEN Dropped("mouse")
     ELSE /\ h' = WithGest(HDblClick(thr), GOther)
          /\ out' = Out([Ev("dblclick", "mouse") EXCEPT
                       !.calls = <<Call("onDoubleTap", 0)>>, !.threw = thr])
          /\ UNCHANGED <<state, lastTouchTime, timers, now, nav, navh, bus, bush, letters,
                         api, sums, view>>

\* the host runs the callback of a tap timer whose delay has elapsed
TimerFire(thr) ==
  \E tm \in timers :
    /\ tm.due <= now
    /\ LET r == tapTimerCallback(state, tm, thr)
       IN /\ state' = r.state
          /\ timers' = timers \ {tm}
          /\ h' = WithRun(WithGest(HFire(tm, r.calls[1].arg, r.threw),
                                   GOther),
                          TFire(tm, r.threw))
          /\ out' = Out([Ev("timer", "none") EXCEPT
                       !.calls = r.calls, !.threw = r.threw])
          /\ UNCHANGED <<lastTouchTime, now, nav, navh, bus, bush, letters, api, sums, view>>

\* time passes, up to the next timer's deadline
Tick(d) ==
  LET dues == {tm.due : tm \in timers}
      t == IF dues = {} THEN now + d
           ELSE Min(now + d, CHOOSE m \in dues : \A k \in dues : m <= k)
  IN /\ t > now
     /\ t <= MaxTime
     /\ now' = t
     /\ out' = Out(Ev("tick", "none"))
     /\ UNCHANGED <<state, lastTouchTime, timers, h, nav, navh, bus, bush, letters,
                    api, sums, view>>

\* the coordinates of a dropped event are never read
C0 == [x |-> 0, y |-> 0, clientX |-> 150]

Next ==
  \/ \E ign \in BOOLEAN : \E c \in IF ign THEN {C0} ELSE StartCoords :
       TouchStart(c, ign)
  \/ \E ign \in BOOLEAN : \E c \in IF ign THEN {C0} ELSE MoveCoords,
        ret \in CbRets, thr \in BOOLEAN : TouchMove(c, ign, ret, thr)
  \/ \E ign \in BOOLEAN : \E c \in IF ign THEN {C0} ELSE EndCoords,
        thr \in BOOLEAN : TouchEnd(c, ign, thr)
  \/ \E ign \in BOOLEAN : \E c \in IF ign THEN {C0} ELSE StartCoords :
       MouseDown(c, ign)
  \/ \E ign \in BOOLEAN : \E c \in IF ign THEN {C0} ELSE MoveCoords,
        ret \in CbRets, thr \in BOOLEAN : MouseMove(c, ign, ret, thr)
  \/ \E ign \in BOOLEAN : \E c \in IF ign THEN {C0} ELSE EndCoords,
        thr \in BOOLEAN : MouseUp(c, ign, thr)
  \/ \E ign \in BOOLEAN, thr \in BOOLEAN : DblClick(ign, thr)
  \/ \E thr \in BOOLEAN : TimerFire(thr)
  \/ \E d \in Dts : Tick(d)

\* an event for which shouldIgnoreEvent returned true was delivered
IgnoredEvent ==
  \/ TouchStart(C0, TRUE)
  \/ TouchMove(C0, TRUE, "undefined", FALSE)
  \/ TouchEnd(C0, TRUE, FALSE)
  \/ MouseDown(C0, TRUE)
  \/ MouseMove(C0, TRUE, "undefined", FALSE)
  \/ MouseUp(C0, TRUE, FALSE)
  \/ DblClick(TRUE, FALSE)

\* ------------------------------------------------------ navigation steps
\* what the recognizer passes to its callbacks, and what the user can do
Directions == {-1, 1}
TapXs == {150, 300, 450}
ScreenWidths == {600, 601}
\* letters of the alphabet bar: with several books, one book, no book
Letters == {"J", "R", "X"}
\* the longest row of clicks on one letter that is followed
MaxClicks == 5

\* history: the operation that ran last, its argument and nav before it;
\* under the observer "alpha" only alphabet clicks are recorded, with the
\* length of the row of clicks they belong to
NavStep(op, arg, width, after) ==
  /\ nav' = after
  /\ navh' = IF h.obs = "alpha"
             THEN [NoNav EXCEPT !.op = "other", !.clicks = navh.clicks]
             ELSE [NoNav EXCEPT !.op = op, !.arg = arg, !.width = width,
                                !.before = Quiet(nav)]
  /\ UNCHANGED <<state, lastTouchTime, timers, now, out, h, bus, bush, letters,
                 api, sums, view>>

OnSwipe(direction) == NavStep("swipe", direction, 0, handleSwipe(Quiet(nav), direction))

OnDrag(direction) == NavStep("drag", direction, 0, handleDrag(Quiet(nav), direction))

OnTap(clientX, screenWidth) ==
  NavStep("tap", clientX, screenWidth, handleTap(Quiet(nav), clientX, screenWidth))

OnDoubleTap == NavStep("doubleTap", 0, 0, handleDoubleTap(Quiet(nav)))

SliderInput(value) ==
  /\ value \in nav.slider.min .. nav.slider.max
  /\ NavStep("slider", value, 0, sliderInput(Quiet(nav), value))

BookClick(bookIndex) ==
  /\ bookIndex \in 0 .. Len(allBooks) - 1
  /\ NavStep("bookClick", bookIndex, 0, bookClick(Quiet(nav), bookIndex))

\* a click on a letter of the alphabet bar; clicks counts the clicks in a
\* row on the letter that is selected (clicks that select no book are not
\* counted, and leave the row as it was)
AlphabetClick(letter) ==
  LET books == booksWithLetter(letter)
      clicks == IF h.obs # "alpha" THEN 0
                ELSE IF nav.currentMode # MODES.BOOKS \/ Len(books) = 0
                THEN navh.clicks
                ELSE IF letter = nav.lastSelectedLetter
                THEN navh.clicks + 1
                ELSE 1
  IN /\ clicks <= MaxClicks
     /\ nav' = alphabetClick(Quiet(nav), letter)
     /\ navh' = [op |-> "alphabet", arg |-> 0, width |-> 0,
                 letter |-> letter, clicks |-> clicks,
                 before |-> Quiet(nav)]
     /\ UNCHANGED <<state, lastTouchTime, timers, now, out, h, bus, bush, letters,
                    api, sums, view>>

NavNext ==
  \/ \E direction \in Directions : OnSwipe(direction)
  \/ \E direction \in Directions : OnDrag(direction)
  \/ \E clientX \in TapXs, screenWidth \in ScreenWidths :
       OnTap(clientX, screenWidth)
  \/ OnDoubleTap
  \/ \E value \in 0 .. Len(allBooks) + 1 : SliderInput(value)
  \/ \E bookIndex \in 0 .. Len(allBooks) - 1 : BookClick(bookIndex)
  \/ \E letter \in Letters : AlphabetClick(letter)

\* ------------------------------------------------------ event bus steps
Top == bus.stack[Len(bus.stack)]

Idle == bus.stack = <<>>

Counted(id) ==
  IF h.obs # "once" THEN bush.calls[id]
  ELSE IF bush.calls[id] < 2 THEN bush.calls[id] + 1 ELSE 2

Cancelled(id) ==
  IF h.obs = "once" /\ bush.calls[id] = 0
  THEN bush.cancelled \cup {id}
  ELSE bush.cancelled

BusUnchanged ==
  UNCHANGED <<state, lastTouchTime, timers, now, out, h, nav, navh,
              letters, api, sums, view>>

\* application code, outside any emit, subscribes a listener
On(eventName) ==
  /\ Idle
  /\ Len(bus.made) < MaxListeners
  /\ bus' = on(bus, eventName)
  /\ bush' = [bush EXCEPT !.calls = Append(@, 0)]
  /\ BusUnchanged

Once(eventName) ==
  /\ Idle
  /\ Len(bus.made) < MaxListeners
  /\ bus' = once(bus, eventName)
  /\ bush' = [bush EXCEPT !.calls = Append(@, 0)]
  /\ BusUnchanged

\* ... calls the unsubscribe function it got for listener id
Unsubscribe(id) ==
  /\ Idle
  /\ id \in 1..Len(bus.made)
  /\ bus' = Spliced(bus, id)
  /\ bush' = [bush EXCEPT !.cancelled = Cancelled(id)]
  /\ BusUnchanged

Off(eventName) ==
  /\ Idle
  /\ bus' = off(bus, eventName)
  /\ UNCHANGED bush
  /\ BusUnchanged

Emit(eventName) ==
  /\ Idle
  /\ bus' = beginEmit(bus, eventName, Data.app, 0)
  /\ UNCHANGED bush
  /\ BusUnchanged

\* forEach reaches an index the array still has: the listener there is
\* invoked with the data of the emit, inside try / catch
Callback(behaviour, target) ==
  /\ ~Idle
  /\ Top.k < Top.len
  /\ Top.k < Len(bus.events[Top.event])
  /\ LET id == bus.events[Top.event][Top.k + 1]
         entered == IF UnsubscribesFirst(bus.made[id].kind)
                    THEN Spliced(bus, id)
                    ELSE bus
         depth == Len(bus.stack)
         visited ==
           [entered EXCEPT
              !.stack[depth].k = @ + 1,
              !.stack[depth].invoked =
                 IF h.obs = "bus"
                 THEN Append(@, [id |-> id, data |-> Top.data])
                 ELSE @,
              !.stack[depth].threw =
                 IF h.obs = "bus" /\ behaviour = "throw"
                 THEN @ \cup {id}
                 ELSE @]
     IN /\ CASE behaviour = "unsubscribe" ->
                 /\ target \in 1..Len(bus.made)
                 /\ bus' = Spliced(visited, target)
                 /\ bush' = [bush EXCEPT
                      !.calls[id] = Counted(id),
                      !.cancelled =
                         IF target # id THEN Cancelled(target) ELSE @]
            [] behaviour = "on" ->
                 /\ target = 0
                 /\ Len(bus.made) < MaxListeners
                 /\ bus' = on(visited, Top.event)
                 /\ bush' = [bush EXCEPT
                      !.calls = Append([@ EXCEPT ![id] = Counted(id)], 0)]
            [] behaviour = "emit" ->
                 /\ target = 0
                 /\ depth < MaxDepth
                 /\ bus' = beginEmit(visited, Top.event, Data.listener, id)
                 /\ bush' = [bush EXCEPT
                      !.calls[id] = Counted(id),
                      !.emitters =
                         IF h.obs = "once" THEN @ \cup {id} ELSE @]
            [] OTHER ->
                 /\ target = 0
                 /\ bus' = visited
                 /\ bush' = [bush EXCEPT !.calls[id] = Counted(id)]
        /\ BusUnchanged

\* forEach reaches an index the array has lost: nothing is invoked
Hole ==
  /\ ~Idle
  /\ Top.k < Top.len
  /\ Top.k >= Len(bus.events[Top.event])
  /\ bus' = [bus EXCEPT !.stack[Len(bus.stack)].k = @ + 1]
  /\ UNCHANGED bush
  /\ BusUnchanged

\* forEach is through: emit returns
EmitReturn ==
  /\ ~Idle
  /\ Top.k >= Top.len
  /\ bus' = [bus EXCEPT !.stack = SubSeq(@, 1, Len(@) - 1)]
  /\ bush' = [bush EXCEPT !.last =
                [event |-> Top.event, data |-> Top.data, by |-> Top.by,
                 snapshot |-> Top.snapshot, invoked |-> Top.invoked,
                 threw |-> Top.threw, removed |-> Top.removed]]
  /\ BusUnchanged

BusNext ==
  \/ \E eventName \in EventNames : On(eventName)
  \/ \E eventName \in EventNames : Once(eventName)
  \/ \E id \in 1..MaxListeners : Unsubscribe(id)
  \/ \E eventName \in EventNames : Off(eventName)
  \/ \E eventName \in EventNames : Emit(eventName)
  \/ \E behaviour \in Behaviours, target \in 0..MaxListeners :
       Callback(behaviour, target)
  \/ Hole
  \/ EmitReturn

\* -------------------------------------------- letter to book index steps
Build ==
  /\ ~letters.result.built
  /\ letters' = [letters EXCEPT
       !.result = [built |-> TRUE,
                   map |-> buildLetterToBookIndex(letters.allBooks)]]
  /\ UNCHANGED <<state, lastTouchTime, timers, now, out, h, nav, navh,
                 bus, bush, api, sums, view>>

LettersNext == Build

\* ------------------------------------------ bibleApiService.js: steps
ApiUnchanged ==
  UNCHANGED <<state, lastTouchTime, timers, now, out, h, nav, navh,
              bus, bush, letters, sums, view>>

\* fetchChapter(bookName, chapter, translation) is called: it runs up to
\* its first await, or to its return or throw before that
FetchChapter(bookName, chapter, translation) ==
  /\ Len(api.calls) < MaxCalls
  /\ LET id == Len(api.calls) + 1
         args == [bookName |-> bookName, chapter |-> chapter,
                  translation |-> translation]
         seen(key) == [known |-> MapHas(api.fetched, key),
                       latest |-> IF MapHas(api.fetched, key)
                                  THEN api.fetched[key] ELSE NoData,
                       failedBefore |-> key \in api.failed]
         call(pc, requested, result, key) ==
           [args |-> args, pc |-> pc, requested |-> requested,
            result |-> result, key |-> key] @@ seen(key)
     IN IF ~HasAbbreviation(bookName)
        THEN \* getBookAbbreviation throws: the promise is rejected
             api' = [api EXCEPT
               !.calls = Append(@, call("rejected", FALSE, NoData, NoKey)),
               !.last = [op |-> "call", call |-> id],
               !.before = api.chapterCache]
        ELSE LET key == KeyOf(bookName, chapter, translation) IN
             IF MapHas(api.chapterCache, key)
             THEN api' = [api EXCEPT
                    !.calls = Append(@, call("resolved", FALSE,
                                             api.chapterCache[key], key)),
                    !.last = [op |-> "call", call |-> id],
                    !.before = api.chapterCache]
             ELSE api' = [api EXCEPT
                    !.calls = Append(@, call("fetch", TRUE, NoData, key)),
                    !.requests = @ + 1,
                    !.last = [op |-> "call", call |-> id],
                    !.before = api.chapterCache]
  /\ ApiUnchanged

\* a call leaves fetchChapter through its catch block (lines 67-70)
Rejected(id, op) ==
  api' = [api EXCEPT
    !.calls[id].pc = "rejected",
    !.last = [op |-> op, call |-> id],
    !.before = api.chapterCache,
    !.failed = IF MapHas(api.fetched, api.calls[id].key)
               THEN @ ELSE @ \cup {api.calls[id].key}]

\* fetch(url) rejects: no answer from the network
FetchFails(id) ==
  /\ id \in DOMAIN api.calls
  /\ api.calls[id].pc = "fetch"
  /\ Rejected(id, "fetchFailed")
  /\ ApiUnchanged

\* fetch(url) resolves with a response
FetchResponds(id, ok) ==
  /\ id \in DOMAIN api.calls
  /\ api.calls[id].pc = "fetch"
  /\ IF ok
     THEN api' = [api EXCEPT !.calls[id].pc = "json",
                             !.last = [op |-> "response", call |-> id],
                             !.before = api.chapterCache]
     ELSE Rejected(id, "notOk")
  /\ ApiUnchanged

\* response.json() rejects: the body is not JSON
JsonFails(id) ==
  /\ id \in DOMAIN api.calls
  /\ api.calls[id].pc = "json"
  /\ Rejected(id, "jsonFailed")
  /\ ApiUnchanged

\* response.json() resolves: the data is cached and returned (lines 61-66)
JsonResolves(id, v) ==
  /\ id \in DOMAIN api.calls
  /\ api.calls[id].pc = "json"
  /\ LET key == api.calls[id].key
         data == ChapterData(key, v)
     IN api' = [api EXCEPT
          !.chapterCache = Stores(api, key, data),
          !.calls[id].pc = "resolved",
          !.calls[id].result = data,
          !.last = [op |-> "fetched", call |-> id],
          !.before = api.chapterCache,
          !.fetched = MapSet(@, key, data),
          !.failed = @ \ {key}]
  /\ ApiUnchanged

clearCache ==
  /\ api' = [api EXCEPT
       !.chapterCache = Cleared(@),
       !.last = [op |-> "clearCache", call |-> 0],
       !.before = api.chapterCache,
       !.fetched = EmptyMap,
       !.failed = {}]
  /\ ApiUnchanged

ApiNext ==
  \/ \E bookName \in BookNames, chapter \in ChapterNumbers :
       FetchChapter(bookName, chapter, DEFAULT_TRANSLATION)
  \/ \E id \in 1..MaxCalls : FetchFails(id)
  \/ \E id \in 1..MaxCalls, ok \in BOOLEAN : FetchResponds(id, ok)
  \/ \E id \in 1..MaxCalls : JsonFails(id)
  \/ \E id \in 1..MaxCalls, v \in Versions : JsonResolves(id, v)
  \/ clearCache

\* ------------------------------------------- displayManager.js: steps
SumsUnchanged ==
  UNCHANGED <<state, lastTouchTime, timers, now, out, h, nav, navh,
              bus, bush, letters, api, view>>

\* the first call awaits its request or the body of the response
FirstInFlight ==
  sums.calls # <<>> /\ sums.calls[1].pc \in {"fetch", "json"}

\* loadChapterSummaries() is called: it runs up to its first await or to
\* its return (lines 28-47)
LoadChapterSummaries ==
  /\ Len(sums.calls) < MaxLoads
  /\ LET call(pc, result, flag) ==
           [pc |-> pc, result |-> result, polls |-> 0,
            inFlight |-> FirstInFlight, flag |-> flag]
     IN IF sums.chapterSummariesLoaded
        THEN sums' = [sums EXCEPT
               !.calls = Append(@, call("resolved", sums.chapterSummaries,
                                        sums.chapterSummariesLoaded))]
        ELSE IF sums.chapterSummariesLoading
        THEN sums' = [sums EXCEPT
               !.calls = Append(@, call("poll", NoSummaries, FALSE))]
        ELSE sums' = [sums EXCEPT
               !.chapterSummariesLoading = TRUE,
               !.requests = @ + 1,
               !.calls = Append(@, call("fetch", NoSummaries, FALSE))]
  /\ SumsUnchanged

\* the call that issued the request returns {} with the flags as given
GivesUp(id, flags, outcome) ==
  sums' = [sums EXCEPT
    !.chapterSummariesLoaded = flags.loaded,
    !.chapterSummariesLoading = flags.loading,
    !.calls[id].pc = "resolved",
    !.calls[id].result = NoSummaries,
    !.calls[id].flag = flags.loaded,
    !.outcome = outcome]

\* fetch rejects: the catch block (lines 61-66)
SummariesFetchFails(id) ==
  /\ id \in DOMAIN sums.calls
  /\ sums.calls[id].pc = "fetch"
  /\ GivesUp(id, AfterFailure, "failed")
  /\ SumsUnchanged

\* fetch resolves with a response (lines 47-55)
SummariesResponse(id, ok) ==
  /\ id \in DOMAIN sums.calls
  /\ sums.calls[id].pc = "fetch"
  /\ IF ok
     THEN sums' = [sums EXCEPT !.calls[id].pc = "json"]
     ELSE GivesUp(id, [loaded |-> TRUE, loading |-> FALSE], "notOk")
  /\ SumsUnchanged

\* response.json() rejects: the catch block (lines 61-66)
SummariesJsonFails(id) ==
  /\ id \in DOMAIN sums.calls
  /\ sums.calls[id].pc = "json"
  /\ GivesUp(id, AfterFailure, "failed")
  /\ SumsUnchanged

\* response.json() resolves (lines 56-60)
SummariesJsonResolves(id) ==
  /\ id \in DOMAIN sums.calls
  /\ sums.calls[id].pc = "json"
  /\ sums' = [sums EXCEPT
       !.chapterSummaries = SummariesData,
       !.chapterSummariesLoaded = TRUE,
       !.chapterSummariesLoading = FALSE,
       !.calls[id].pc = "resolved",
       !.calls[id].result = SummariesData,
       !.calls[id].flag = TRUE,
       !.outcome = "loaded"]
  /\ SumsUnchanged

\* the interval of a waiting call fires (lines 35-40)
CheckInterval(id) ==
  /\ id \in DOMAIN sums.calls
  /\ sums.calls[id].pc = "poll"
  /\ IF sums.chapterSummariesLoaded
     THEN sums' = [sums EXCEPT
            !.calls[id].pc = "resolved",
            !.calls[id].result = sums.chapterSummaries,
            !.calls[id].flag = sums.chapterSummariesLoaded]
     ELSE /\ sums.calls[id].polls < MaxPolls
          /\ sums' = [sums EXCEPT !.calls[id].polls = @ + 1]
  /\ SumsUnchanged

SumsNext ==
  \/ LoadChapterSummaries
  \/ \E id \in 1..MaxLoads : SummariesFetchFails(id)
  \/ \E id \in 1..MaxLoads, ok \in BOOLEAN : SummariesResponse(id, ok)
  \/ \E id \in 1..MaxLoads : SummariesJsonFails(id)
  \/ \E id \in 1..MaxLoads : SummariesJsonResolves(id)
  \/ \E id \in 1..MaxLoads : CheckInterval(id)

\* ------------------------------------- displayManager.js: the screen
\* a gesture of the user runs its handler and the display callbacks the
\* handler invokes
ViewStep(op, after) ==
  LET v == RenderAll(view, after, Renders(op, Quiet(nav), after))
  IN /\ Len(v.calls) <= MaxViews
     /\ nav' = after
     /\ view' = [v EXCEPT !.last = "user"]
     /\ UNCHANGED <<state, lastTouchTime, timers, now, out, h, navh, bus,
                    bush, letters, api, sums>>

ViewSwipe(direction) ==
  ViewStep("swipe", handleSwipe(Quiet(nav), direction))

ViewDrag(direction) == ViewStep("drag", handleDrag(Quiet(nav), direction))

ViewTap(clientX, screenWidth) ==
  ViewStep("tap", handleTap(Quiet(nav), clientX, screenWidth))

ViewDoubleTap == ViewStep("doubleTap", handleDoubleTap(Quiet(nav)))

ViewUnchanged ==
  UNCHANGED <<state, lastTouchTime, timers, now, out, h, nav, navh, bus,
              bush, letters, api, sums>>

\* the request for the summaries ends, with any outcome: the flag is set
\* (lines 50-66) and the call that awaited the request resumes
SummariesSettle ==
  /\ view.summaries = "loading"
  /\ \E id \in DOMAIN view.calls :
       /\ view.calls[id].pc = "load"
       /\ view' = [ResumedChapter(view, nav, id) EXCEPT
                     !.summaries = "loaded",
                     !.last = "chapterResumed"]
  /\ ViewUnchanged

\* the interval of a waiting loadChapterSummaries call fires after the flag
\* has been set (lines 35-40), and the call that awaited it resumes
IntervalFires(id) ==
  /\ id \in DOMAIN view.calls
  /\ view.calls[id].pc = "poll"
  /\ view.summaries = "loaded"
  /\ view' = [ResumedChapter(view, nav, id) EXCEPT
                !.last = "chapterResumed"]
  /\ ViewUnchanged

\* the fetchChapter call of a suspended updateReadingDisplay settles
FetchSettles(id, ok) ==
  /\ id \in DOMAIN view.calls
  /\ view.calls[id].pc = "fetch"
  /\ view' = [ResumedReading(view, id, ok) EXCEPT
                !.last = "readingResumed"]
  /\ ViewUnchanged

ViewNext ==
  \/ \E direction \in Directions : ViewSwipe(direction)
  \/ \E direction \in Directions : ViewDrag(direction)
  \/ \E clientX \in TapXs, screenWidth \in ScreenWidths :
       ViewTap(clientX, screenWidth)
  \/ ViewDoubleTap
  \/ SummariesSettle
  \/ \E id \in 1..MaxViews : IntervalFires(id)
  \/ \E id \in 1..MaxViews, ok \in BOOLEAN : FetchSettles(id, ok)

\* The recognizer with every history at once, and with one history each
Spec == Init /\ [][Next]_vars
SpecOut == InitWith("out") /\ [][Next]_vars
SpecStr == InitWith("str") /\ [][Next]_vars
SpecTap == InitWith("tap") /\ [][Next]_vars
SpecPair == InitWith("pair") /\ [][Next]_vars
SpecGest == InitWith("gest") /\ [][Next]_vars
SpecRel == InitWith("rel") /\ [][Next]_vars
SpecRun == InitWith("run") /\ [][Next]_vars

\* The navigation handlers, driven by callbacks, slider and clicks
SpecNav == InitWith("nav") /\ [][NavNext]_vars
SpecAlpha == InitWith("alpha") /\ [][NavNext]_vars

\* The event bus, driven by its callers and by what its listeners do
SpecBus == InitWith("bus") /\ [][BusNext]_vars
SpecOnce == InitWith("once") /\ [][BusNext]_vars

\* buildLetterToBookIndex, run on every book list
SpecLetters == InitWith("letters") /\ [][LettersNext]_vars
SpecApi == InitWith("api") /\ [][ApiNext]_vars
SpecSums == InitWith("sums") /\ [][SumsNext]_vars
SpecView == InitWith("view") /\ [][ViewNext]_vars

\* the host keeps running: due timer callbacks run and time passes
FairTap ==
  SpecTap /\ WF_vars(\E thr \in BOOLEAN : TimerFire(thr))
          /\ WF_vars(\E d \in Dts : Tick(d))

\* ------------------------------------------------------------ properties
TapLive == h.tap.id # NULL /\ h.tap.id \in TimerIds(timers)

\* C1 (as claimed): once a start has been processed after a tap-pending end,
\* the onTap of that earlier, abandoned tap is never invoked.
C1_AbandonedTapNeverFires == h.tap.fired > 0 => ~h.tap.abandoned

\* C2 (as claimed): a gesture stream - one start, its moves, one end and the
\* timer that end schedules - invokes at most one callback in total among
\* onSwipe, onDrag, onTap and onDoubleTap.
C2_AtMostOneCallbackPerStream ==
  /\ h.str.swipes + h.str.ends <= 1
  /\ h.pend.swipes + h.pend.ends <= 1

\* C2 (amended): a gesture stream invokes at most one callback among onDrag,
\* onDoubleTap and onTap; onSwipe may be invoked any number of times before.
C2_AtMostOneEndCallbackPerStream ==
  /\ h.str.ends <= 1
  /\ h.pend.ends <= 1

\* C2 witness: a stream that swiped twice and then ended with its one end
\* callback.
C2_Witness == h.str.ended /\ h.str.swipes >= 2 /\ h.str.ends = 1

\* C3 (as claimed): two consecutive tap-eligible gestures whose ends are more
\* than 0 and less than TAP_DELAY apart produce exactly one onDoubleTap and no
\* onTap, on the touch channel and on the mouse channel with its dblclick.
C3_DoubleTapOnceAndNoTap ==
  (/\ h.last.time # 0 /\ ~h.last.threw
   /\ h.last.eligible /\ h.prev.eligible
   /\ h.last.gap > 0 /\ h.last.gap < TAP_DELAY)
  => (h.last.dts = 1 /\ h.last.taps = 0 /\ h.prev.taps = 0)

\* C4: a tap timer that is scheduled and followed by no start or end fires
\* onTap exactly once, with the clientX of the end event that scheduled it,
\* and no timer is pending afterwards.
C4_SingleTapFiresOnce ==
  /\ [](h.tap.fired <= 1)
  /\ []((h.tap.fired = 1 /\ h.tap.quiet)
          => (h.tap.arg = h.tap.x /\ timers = {}))
  /\ ((TapLive /\ h.tap.quiet
         /\ \A tm \in timers : tm.id = h.tap.id => tm.due <= MaxTime)
        ~> (h.tap.fired = 1 \/ ~h.tap.quiet))

\* C4 witness: the timer of an undisturbed tap has fired.
C4_Witness == h.tap.fired = 1 /\ h.tap.quiet /\ h.tap.arg = 450

\* C5 (as claimed): handleEnd calls onDoubleTap only when the gesture
\* completed just before was tap-eligible and ended within the window.
C5_DoubleTapOnlyAfterTap ==
  (h.last.dtEnd /\ ~h.last.threw)
    => (h.prev.eligible /\ h.last.gap > 0 /\ h.last.gap < TAP_DELAY)

\* C6 (as claimed): a horizontal-dominant gesture that moves monotonically
\* by D px in total has invoked onSwipe floor(D / 20) times.
C6_SwipesEqualFloor ==
  h.str.dir \in {1, -1} => h.str.swipes = h.str.dist \div SWIPE_THRESHOLD

\* C6 (amended): such a gesture has invoked onSwipe at most floor(D / 20)
\* times, and exactly floor(D / 20) times when all its samples have the same
\* size and that size divides 20.
C6_SwipesAtMostFloor ==
  h.str.dir \in {1, -1}
    => /\ h.str.swipes <= h.str.dist \div SWIPE_THRESHOLD
       /\ (h.str.step > 0 /\ SWIPE_THRESHOLD % h.str.step = 0)
            => h.str.swipes = h.str.dist \div SWIPE_THRESHOLD

\* C6 witness: three samples of 20 px each fired three swipes.
C6_Witness ==
  h.str.dir \in {1, -1} /\ h.str.step = 20 /\ h.str.dist = 60
    /\ h.str.swipes = 3

\* C7 (as claimed): a mouse event that arrives less than 500 ms after the
\* last processed touchend changes no field of the gesture state and invokes
\* no callback.
C7_MouseIgnoredInWindow ==
  [][(out'.chan = "mouse" /\ now' - lastTouchTime < SYNTHETIC_MOUSE_WINDOW)
       => (state' = state /\ timers' = timers /\ out'.calls = <<>>)]_vars

\* C8 (as claimed): handleMove signals suppression for exactly the moves
\* that are horizontal-dominant and arrive while a gesture is active,
\* whatever onSwipe returns (stated for the moves whose callback returns).
C8_HorizontalMoveSuppresses ==
  (out.ev = "move" /\ ~out.threw) => (Suppresses(out.result) <=> out.horiz)

\* C9 (as claimed): no exception of a callback leaves handleMove, handleEnd
\* or the tap timer callback.
C9_NoExceptionEscapes ==
  out.ev \in {"move", "end", "timer"} => ~out.threw

\* C10 (as claimed): when onDrag or onDoubleTap throws, handleEnd has still
\* reset the state and recorded lastTapTime; when onTap throws, the timer
\* callback has still cleared tapTimeout.
C10_TransitionCompletesOnThrow ==
  /\ (out.ev = "end" /\ out.threw)
       => (/\ ~state.isDragging /\ ~state.hasActuallyDragged
           /\ state.tapTimeout = NULL /\ state.lastTapTime = now)
  /\ (out.ev = "timer" /\ out.threw) => state.tapTimeout = NULL

\* C11: while every move sample since the start has had |deltaY| >= |deltaX|,
\* no sample has invoked onSwipe, and accumulatedDistance and lastX are as
\* handleStart left them.
C11_VerticalNeverSwipes ==
  h.gest.vert
    => /\ state.accumulatedDistance = 0
       /\ state.lastX = state.startX
       /\ h.gest.ev = "move" => h.gest.calls = <<>>

\* C11 witness: a sample beyond the movement threshold was processed and
\* every sample so far was vertical-dominant or diagonal.
C11_Witness == h.gest.vert /\ h.gest.moved /\ h.gest.ev = "move"

\* C12: every onSwipe passes -1 when the accumulated distance that reached
\* the threshold is positive and +1 when it is negative; every onDrag passes
\* -1 when end x minus start x is positive and +1 when it is negative; no
\* other direction is ever passed.
C12_DirectionSign ==
  \A i \in 1..Len(h.gest.calls) :
    LET call == h.gest.calls[i]
    IN /\ call.name \in {"onSwipe", "onDrag"} => call.arg \in {-1, 1}
       /\ call.name = "onSwipe"
            => /\ h.gest.ev = "move"
               /\ \/ h.gest.cross > 0 /\ call.arg = -1
                  \/ h.gest.cross < 0 /\ call.arg = 1
       /\ call.name = "onDrag"
            => /\ h.gest.ev = "end"
               /\ \/ h.gest.dx > 0 /\ call.arg = -1
                  \/ h.gest.dx < 0 /\ call.arg = 1

\* C12 witness: a drag of 60 px to the left was reported with direction +1.
C12_Witness ==
  h.gest.ev = "end" /\ h.gest.dx = -60 /\ h.gest.calls = <<Call("onDrag", 1)>>

\* what C13 says of the end of a gesture that had moved: it is not classified
\* as tap or double-tap, schedules no tap timer and invokes no onDoubleTap
MovedEndIsNoTap ==
  (h.gest.ev = "end" /\ h.gest.was)
    => /\ h.gest.result \notin {"tap", "double-tap"}
       /\ ~h.gest.sched
       /\ Count(h.gest.calls, {"onDoubleTap"}) = 0

\* C13 (as claimed): once a sample of a gesture is beyond the movement
\* threshold, hasActuallyDragged stays true until the next start - also
\* after the end of the gesture - and that end is no tap or double-tap.
C13_MovedStaysUntilStart ==
  /\ (h.gest.moved \/ (h.gest.ev = "end" /\ h.gest.was))
       => state.hasActuallyDragged
  /\ MovedEndIsNoTap

\* C13 (amended): once a sample of a gesture is beyond the movement
\* threshold, hasActuallyDragged stays true until the end of the gesture is
\* processed or the next start, and that end is no tap or double-tap.
C13_MovedStaysUntilEnd ==
  /\ h.gest.moved => state.hasActuallyDragged
  /\ MovedEndIsNoTap

\* C13 witness: a gesture that had moved was released at its start position
\* and classified as drag, with no callback.
C13_Witness ==
  /\ h.gest.ev = "end" /\ h.gest.was /\ h.gest.dx = 0
  /\ h.gest.result = "drag" /\ h.gest.calls = <<>>

\* what C14 says of the end of a moved gesture: with |end x - start x| > 50
\* it invokes onDrag once with the sign convention, schedules no tap timer,
\* leaves no tap timer pending and leaves the recognizer inactive; with
\* |end x - start x| <= 50 it invokes nothing.
DragEndOutcome ==
  IF Abs(h.gest.dx) > DRAG_THRESHOLD
  THEN /\ h.gest.calls = <<Call("onDrag", IF h.gest.dx > 0 THEN -1 ELSE 1)>>
       /\ ~h.gest.sched
       /\ timers = {} /\ state.tapTimeout = NULL
       /\ ~state.isDragging
  ELSE h.gest.calls = <<>>

\* C14 (as claimed): every end of a moved gesture has that outcome.
C14_DragEnd == (h.gest.ev = "end" /\ h.gest.was) => DragEndOutcome

\* C14, for the record: the ends of moved gestures whose onDrag returns have
\* that outcome.
C14_DragEndWhenOnDragReturns ==
  (h.gest.ev = "end" /\ h.gest.was /\ ~h.gest.threw) => DragEndOutcome

\* C15 (as claimed): at most one tap timer is outstanding, and
\* state.tapTimeout is non-null exactly when one is (and is its handle).
C15_OneTimerIffHandle ==
  /\ Cardinality(timers) <= 1
  /\ state.tapTimeout # NULL <=> timers # {}
  /\ \A tm \in timers : tm.id = state.tapTimeout

\* C15, for the record: at most one tap timer is outstanding, and while one
\* is, state.tapTimeout is its handle.
C15_OneTimerHasHandle ==
  /\ Cardinality(timers) <= 1
  /\ \A tm \in timers : tm.id = state.tapTimeout

\* C16: a move or end event that reaches handleMove / handleEnd while
\* isDragging is false changes no state field, cancels or schedules no timer,
\* invokes no callback and returns null.
C16_InactiveMoveEndIsNoOp ==
  [][(out'.ev \in {"move", "end"} /\ ~state.isDragging)
       => /\ state' = state
          /\ timers' = timers
          /\ out'.calls = <<>> /\ ~out'.threw
          /\ out'.result = "null"]_vars

\* C16 witness: an end event arrived while a tap was pending and the
\* recognizer was inactive, and was not handled.
C16_Witness ==
  /\ out.ev = "end" /\ out.result = "null"
  /\ ~state.isDragging /\ state.tapTimeout # NULL /\ timers # {}

\* C17: an event for which the ignore predicate returns true leaves the
\* gesture state, the tap timer and lastTouchTime unchanged and invokes no
\* callback.
C17_IgnoredEventIsDropped ==
  [][IgnoredEvent
       => /\ state' = state
          /\ timers' = timers
          /\ lastTouchTime' = lastTouchTime
          /\ out'.calls = <<>> /\ ~out'.threw]_vars

\* C17 witness: a touch event was ignored (only the predicate drops touch
\* events) while a gesture was active and a tap timer was pending.
C17_Witness ==
  /\ out.ev = "dropped" /\ out.chan = "touch"
  /\ state.isDragging /\ timers # {}

\* the level of a mode in the flow books -> chapters -> reading
Level(mode) ==
  CASE mode = MODES.BOOKS -> 0
    [] mode = MODES.CHAPTERS -> 1
    [] mode = MODES.READING -> 2

LevelMoved == Level(nav.currentMode) - Level(navh.before.currentMode)

GestureCallbacks == {"tap", "doubleTap", "swipe", "drag"}

\* C18: each onTap moves BOOKS -> CHAPTERS with currentChapter set to 1, or
\* CHAPTERS -> READING, and leaves the mode alone in READING; each
\* onDoubleTap moves READING -> CHAPTERS or CHAPTERS -> BOOKS and changes
\* nothing in BOOKS; no callback invocation moves the mode by more than one
\* level, and none that moves the mode changes currentBookIndex.
C18_ModeMachine ==
  /\ navh.op = "tap" =>
       /\ navh.before.currentMode = MODES.BOOKS =>
            nav.currentMode = MODES.CHAPTERS /\ nav.currentChapter = 1
       /\ navh.before.currentMode = MODES.CHAPTERS =>
            nav.currentMode = MODES.READING
       /\ navh.before.currentMode = MODES.READING =>
            nav.currentMode = MODES.READING
  /\ navh.op = "doubleTap" =>
       /\ navh.before.currentMode = MODES.READING =>
            nav.currentMode = MODES.CHAPTERS
       /\ navh.before.currentMode = MODES.CHAPTERS =>
            nav.currentMode = MODES.BOOKS
       /\ navh.before.currentMode = MODES.BOOKS => nav = navh.before
  /\ navh.op \in GestureCallbacks =>
       /\ LevelMoved \in {-1, 0, 1}
       /\ LevelMoved # 0 =>
            nav.currentBookIndex = navh.before.currentBookIndex

\* C18 witness: a double tap in READING mode, in a book other than the
\* first and at a chapter other than the first, went back to CHAPTERS.
C18_Witness ==
  /\ navh.op = "doubleTap"
  /\ navh.before.currentMode = MODES.READING
  /\ navh.before.currentBookIndex > 0
  /\ navh.before.currentChapter > 1
  /\ nav.currentMode = MODES.CHAPTERS

\* the value a swipe or drag in the given direction leads to: moved by the
\* direction when that stays within lo..hi, else as it was
MovedWithin(value, direction, lo, hi) ==
  IF value + direction >= lo /\ value + direction <= hi
  THEN value + direction
  ELSE value

\* C19: a swipe in BOOKS mode changes currentBookIndex by the direction and
\* one in CHAPTERS mode changes currentChapter by the direction, and
\* changes nothing when that would leave 0 .. allBooks.length - 1 or
\* 1 .. chapterCounts[book]; a swipe in READING mode changes neither; a
\* drag changes the chapter only in READING mode, within the same bounds.
C19_SwipeAndDrag ==
  LET before == navh.before
      direction == navh.arg
  IN /\ navh.op = "swipe" /\ before.currentMode = MODES.BOOKS =>
          /\ nav.currentBookIndex =
               MovedWithin(before.currentBookIndex, direction,
                           0, Len(allBooks) - 1)
          /\ nav.currentChapter = before.currentChapter
          /\ nav.currentBookIndex = before.currentBookIndex => nav = before
     /\ navh.op = "swipe" /\ before.currentMode = MODES.CHAPTERS =>
          /\ nav.currentChapter =
               MovedWithin(before.currentChapter, direction,
                           1, chaptersOf(before))
          /\ nav.currentBookIndex = before.currentBookIndex
          /\ nav.currentChapter = before.currentChapter => nav = before
     /\ navh.op = "swipe" /\ before.currentMode = MODES.READING =>
          nav = before
     /\ navh.op = "drag" /\ before.currentMode = MODES.READING =>
          /\ nav.currentChapter =
               MovedWithin(before.currentChapter, direction,
                           1, chaptersOf(before))
          /\ nav.currentBookIndex = before.currentBookIndex
     /\ navh.op = "drag" /\ before.currentMode # MODES.READING =>
          nav = before
     /\ navh.op \in {"swipe", "drag"} =>
          nav.currentMode = before.currentMode

\* C19 witness: a swipe forward at the last chapter of a book with several
\* chapters, in CHAPTERS mode, changed nothing.
C19_Witness ==
  /\ navh.op = "swipe"
  /\ navh.arg = 1
  /\ navh.before.currentMode = MODES.CHAPTERS
  /\ chaptersOf(navh.before) > 1
  /\ navh.before.currentChapter = chaptersOf(navh.before)
  /\ nav = navh.before

\* C19 witness of the other cases: a drag in READING mode moved the chapter
\* back by one.
C19_DragMoved ==
  /\ navh.op = "drag"
  /\ navh.arg = -1
  /\ navh.before.currentMode = MODES.READING
  /\ nav.currentChapter = navh.before.currentChapter - 1

\* C20: in READING mode an onTap whose x is left of the screen midpoint
\* moves to the previous chapter and one at or right of it to the next;
\* the chapter stays as it was when that would go below 1 or above the
\* book's chapter count (so always in a book of one chapter); the mode stays
\* READING.
C20_ReadingTap ==
  LET before == navh.before
      direction == IF 2 * navh.arg < navh.width THEN -1 ELSE 1
  IN navh.op = "tap" /\ before.currentMode = MODES.READING =>
       /\ nav.currentMode = MODES.READING
       /\ nav.currentChapter =
            MovedWithin(before.currentChapter, direction,
                        1, chaptersOf(before))
       /\ chaptersOf(before) = 1 => nav = before
       /\ nav.currentBookIndex = before.currentBookIndex

\* C20 witness: a tap exactly at the midpoint of the screen, in READING
\* mode, moved to the next chapter.
C20_Witness ==
  /\ navh.op = "tap"
  /\ navh.before.currentMode = MODES.READING
  /\ 2 * navh.arg = navh.width
  /\ nav.currentChapter = navh.before.currentChapter + 1

\* the indexes of the books whose name starts with the letter (its first
\* capital, numbered books included)
MatchingIndexes(letter) ==
  {i \in 0 .. Len(allBooks) - 1 :
     getFirstAlphabeticChar(allBooks[i + 1].book) = letter}

MatchCount(letter) == Cardinality(MatchingIndexes(letter))

\* those indexes in the sorted order of the names: an arrangement in which
\* no book comes before one the comparator puts ahead of it
SortedMatches(letter) ==
  CHOOSE order \in [1..MatchCount(letter) -> MatchingIndexes(letter)] :
    /\ \A i, j \in DOMAIN order : i # j => order[i] # order[j]
    /\ \A i, j \in DOMAIN order :
         i < j => compareBooks(allBooks[order[i] + 1].book,
                               allBooks[order[j] + 1].book) <= 0

\* the outcome of a click on a letter of the alphabet bar in BOOKS mode: a
\* letter other than the selected one selects its first book in sorted
\* order, the k-th click in a row on a letter with n books selects the book
\* at position (k - 1) mod n, a letter without books changes nothing
AlphabetClickOutcome ==
  LET letter == navh.letter
      n == MatchCount(letter)
  IN navh.op = "alphabet" /\ navh.before.currentMode = MODES.BOOKS =>
       /\ n = 0 => nav = navh.before
       /\ n > 0 /\ letter # navh.before.lastSelectedLetter =>
            /\ navh.clicks = 1
            /\ nav.currentBookIndex = SortedMatches(letter)[1]
       /\ n > 0 =>
            /\ nav.currentBookIndex =
                 SortedMatches(letter)[((navh.clicks - 1) % n) + 1]
            /\ nav.lastSelectedLetter = letter

\* C21: alphabet clicks have that outcome, and letterCycleIndex is less than
\* the number of books matching lastSelectedLetter (a letter: before the
\* first selection lastSelectedLetter is null and there is no such number).
C21_AlphabetCycling ==
  /\ AlphabetClickOutcome
  /\ nav.lastSelectedLetter # NoLetter =>
       nav.letterCycleIndex < MatchCount(nav.lastSelectedLetter)

\* C21 witness: click n + 1 in a row on a letter with n > 1 books came back
\* to the first of them in sorted order, which is not the first of them in
\* the order of allBooks.
C21_Witness ==
  /\ navh.op = "alphabet"
  /\ MatchCount(navh.letter) > 1
  /\ navh.clicks = MatchCount(navh.letter) + 1
  /\ nav.currentBookIndex = SortedMatches(navh.letter)[1]
  /\ \E i \in MatchingIndexes(navh.letter) : i < nav.currentBookIndex

\* the handler that ran last emitted the event, with the old and new value
Emitted(nv, name, old, new) ==
  \E i \in 1..Len(nv.emitted) :
    nv.emitted[i] = [name |-> name, old |-> old, new |-> new]

\* C22 (as claimed): every operation that changes currentMode emits
\* MODE_CHANGED with the old and the new mode, and every operation that
\* changes currentChapter emits CHAPTER_CHANGED.
C22_ChangesEmitEvents ==
  navh.op # "none" =>
    /\ nav.currentMode # navh.before.currentMode =>
         Emitted(nav, Events.MODE_CHANGED,
                 navh.before.currentMode, nav.currentMode)
    /\ nav.currentChapter # navh.before.currentChapter =>
         \E i \in 1..Len(nav.emitted) :
           nav.emitted[i].name = Events.CHAPTER_CHANGED

\* C22, for the record: the changes made through the setters emit their
\* event - a change of currentBookIndex always, a change of currentChapter
\* by an operation that leaves the mode alone, a change of mode by
\* setCurrentMode.
C22_SetterChangesEmit ==
  /\ navh.op # "none" =>
       /\ nav.currentBookIndex # navh.before.currentBookIndex =>
            \E i \in 1..Len(nav.emitted) :
              /\ nav.emitted[i].name = Events.BOOK_CHANGED
              /\ nav.emitted[i].new = nav.currentBookIndex
       /\ /\ nav.currentChapter # navh.before.currentChapter
          /\ nav.currentMode = navh.before.currentMode
          => Emitted(nav, Events.CHAPTER_CHANGED,
                     navh.before.currentChapter, nav.currentChapter)
  /\ \A mode \in {MODES.BOOKS, MODES.CHAPTERS, MODES.READING} :
       LET set == setCurrentMode(Quiet(nav), mode) IN
       /\ set.currentMode = mode
       /\ IF mode # nav.currentMode
          THEN Emitted(set, Events.MODE_CHANGED, nav.currentMode, mode)
          ELSE set.emitted = <<>>

\* the listeners an emit invoked, in the order it invoked them
InvokedIds(em) == [i \in 1..Len(em.invoked) |-> em.invoked[i].id]

\* C23 (as claimed): an emit invokes every callback subscribed to the event
\* at the moment emit is called exactly once, in subscription order, also
\* when subscribed callbacks were registered with once() or unsubscribe
\* themselves during the emit.
C23_EmitInvokesEverySubscriber ==
  bush.last.event # "none" => InvokedIds(bush.last) = bush.last.snapshot

\* C23, for the record: an emit during which no listener is removed from
\* the array invokes every callback subscribed at its call exactly once, in
\* subscription order.
C23_EmitWithoutRemovalInvokesAll ==
  bush.last.event # "none" /\ ~bush.last.removed =>
    InvokedIds(bush.last) = bush.last.snapshot

OnceListeners == {id \in 1..Len(bus.made) : bus.made[id].kind = "once"}

C24_CancelledWitness ==
  \E id \in OnceListeners :
    /\ id \in bush.cancelled
    /\ \E other \in 1..Len(bus.made) : bush.calls[other] = 2

\* the emit invoked the listener, with the data it was called with
InvokedWithData(em, id) ==
  \E i \in 1..Len(em.invoked) : em.invoked[i] = [id |-> id, data |-> em.data]

\* C26 (as claimed): when a subscribed callback throws, the emit returns
\* all the same (it is bush.last), and every other callback subscribed to
\* the event is still invoked with the same data in that emit.
C26_ThrowDoesNotStopOthers ==
  bush.last.threw # {} =>
    \A i \in 1..Len(bush.last.snapshot) :
      InvokedWithData(bush.last, bush.last.snapshot[i])

\* C26, for the record: in an emit during which no listener is removed from
\* the array, a callback that throws stops nothing - every callback
\* subscribed to the event is invoked once with the data of the emit.
C26_ThrowAloneDoesNotStopOthers ==
  bush.last.threw # {} /\ ~bush.last.removed =>
    /\ InvokedIds(bush.last) = bush.last.snapshot
    /\ \A i \in 1..Len(bush.last.invoked) :
         bush.last.invoked[i].data = bush.last.data

\* C26, for the record: a throw was seen by an emit that went on to invoke
\* the listeners after the one that threw.
C26_ThrowSeen ==
  /\ ~bush.last.removed
  /\ Len(bush.last.snapshot) = 3
  /\ bush.last.snapshot[1] \in bush.last.threw

\* the letters the books of a list start with, and the index of the first
\* book of the list that starts with a letter
LettersOf(books) ==
  {getFirstAlphabeticChar(books[i].book) : i \in 1..Len(books)}
    \ {UNDEFINED}

FirstIndexOf(books, letter) ==
  (CHOOSE i \in 1..Len(books) :
     /\ getFirstAlphabeticChar(books[i].book) = letter
     /\ \A j \in 1..(i - 1) :
          getFirstAlphabeticChar(books[j].book) # letter) - 1

\* C25 (as claimed): for every book list, buildLetterToBookIndex maps each
\* letter to the index of the first book whose first alphabetic character
\* is that letter, also when that book is at index 0 and a later book
\* starts with the same letter.
C25_FirstBookOfEachLetter ==
  letters.result.built =>
    /\ DOMAIN letters.result.map = LettersOf(letters.allBooks)
    /\ \A letter \in LettersOf(letters.allBooks) :
         letters.result.map[letter] = FirstIndexOf(letters.allBooks, letter)

\* the 0-based indexes of the books of a list that start with a letter
IndexesOf(books, letter) ==
  {i - 1 : i \in {j \in 1..Len(books) :
                    getFirstAlphabeticChar(books[j].book) = letter}}

\* C25, for the record: the map has an entry for exactly the letters of the
\* list; the entry of a letter is the index of its first book unless that
\* index is 0, and the entry of the letter of the book at index 0 is the
\* index of the next book that starts with it, if there is one.
C25_FirstBookUnlessAtIndexZero ==
  letters.result.built =>
    /\ DOMAIN letters.result.map = LettersOf(letters.allBooks)
    /\ \A letter \in LettersOf(letters.allBooks) :
         LET later == IndexesOf(letters.allBooks, letter) \ {0} IN
         IF FirstIndexOf(letters.allBooks, letter) # 0 \/ later = {}
         THEN letters.result.map[letter] =
                FirstIndexOf(letters.allBooks, letter)
         ELSE /\ letters.result.map[letter] \in later
              /\ \A i \in later : letters.result.map[letter] <= i

\* ---------------------------------------------------------------- C27
\* the calls of fetchChapter made so far
ApiCalls == {api.calls[i] : i \in DOMAIN api.calls}

\* C27: a call for a key that an earlier call has fetched successfully (since
\* the cache was last cleared) issues no request and resolves with the data
\* cached by the latest such call; a call for a key not fetched successfully
\* issues a request, in particular after a request for it has failed; a
\* fetch that fails, a response that is not ok and a body that is not JSON
\* reject the call and leave the cache as it was; clearCache leaves the
\* cache empty.
C27_FetchChapterCaching ==
  /\ \A c \in ApiCalls :
       /\ c.known =>
            ~c.requested /\ c.pc = "resolved" /\ c.result = c.latest
       /\ HasAbbreviation(c.args.bookName) /\ ~c.known => c.requested
  /\ api.last.op \in {"fetchFailed", "notOk", "jsonFailed"} =>
       /\ api.calls[api.last.call].pc = "rejected"
       /\ api.chapterCache = api.before
  /\ api.last.op = "clearCache" => api.chapterCache = EmptyMap
  /\ api.requests = Cardinality({i \in DOMAIN api.calls :
                                   api.calls[i].requested})

\* C27 witness: a call made after a failed request for its key issued a new
\* request and fetched the chapter, and a later call for the key got the
\* data from the cache
C27_Witness ==
  \E i, j \in DOMAIN api.calls :
    /\ i < j
    /\ api.calls[i].key = api.calls[j].key
    /\ api.calls[i].failedBefore /\ api.calls[i].requested
    /\ api.calls[i].pc = "resolved"
    /\ api.calls[j].known /\ ~api.calls[j].requested
    /\ api.calls[j].result = api.calls[i].result
    /\ api.requests = 2

\* C27 witness of the last part: the cache was cleared when it held a chapter
C27_Cleared ==
  api.last.op = "clearCache" /\ api.before # EmptyMap

\* ---------------------------------------------------------------- C28
\* C28: over any calls of loadChapterSummaries, sequential or overlapping,
\* at most one network request is issued, also after the request failed or
\* was answered with a response that is not ok; a call made while the first
\* call is in flight is resolved only when chapterSummariesLoaded is set.
C28_SummariesRequestedOnce ==
  /\ sums.requests <= 1
  /\ \A i \in DOMAIN sums.calls :
       sums.calls[i].inFlight /\ sums.calls[i].pc = "resolved" =>
         sums.calls[i].flag /\ sums.chapterSummariesLoaded

\* C28 witness: the request failed (or the response was not ok), a call made
\* while it was in flight has been resolved after waiting, and a call made
\* after the failure has been resolved, all with one request
C28_Witness ==
  /\ sums.outcome \in {"failed", "notOk"}
  /\ sums.requests = 1
  /\ \E i, j \in DOMAIN sums.calls :
       /\ 1 < i /\ i < j
       /\ sums.calls[i].inFlight /\ sums.calls[i].pc = "resolved"
       /\ sums.calls[i].polls > 0
       /\ ~sums.calls[j].inFlight /\ sums.calls[j].pc = "resolved"
       /\ sums.calls[j].polls = 0

\* ---------------------------------------------------------------- C29
\* C29 (as claimed): after a mousedown was accepted and a mouseup has been
\* delivered - processed, over an excluded region, or inside the window
\* after a touch - no mousemove invokes onSwipe until the next start.
C29_ReleasedGestureIsOver == ~h.rel.swiped

\* C29, for the record: it holds when the mouseup reached handleEnd and no
\* callback threw in it; the recognizer is then inactive until the next
\* start.
C29_ProcessedReleaseEndsGesture ==
  h.rel.phase = "released" /\ h.rel.how = "ended" =>
    ~h.rel.swiped /\ ~state.isDragging

\* ---------------------------------------------------------------- C30
\* C30 (as claimed): a run of N rapid taps, each ending more than 0 and less
\* than 300 ms after the one before, has N - 1 onDoubleTap calls made by
\* handleEnd and no onTap call, whatever happens between and after the taps.
C30_RapidTaps ==
  h.run.n >= 2 => h.run.dts = h.run.n - 1 /\ ~h.run.tapped

\* C30, for the record: it holds of the runs in which no callback has thrown
C30_RapidTapsWithoutThrow ==
  h.run.n >= 1 /\ ~h.run.threw =>
    /\ h.run.dts = h.run.n - 1
    /\ h.run.n >= 2 => ~h.run.tapped
    /\ state.lastTapTime = h.run.time

\* ---------------------------------------------------------------- C31
\* C31: whenever the mode is CHAPTERS or READING, currentBookIndex is an
\* index of allBooks and currentChapter is a chapter of that book (1 up to
\* its chapter count), after any sequence of swipes, drags, taps, double
\* taps, slider inputs within the slider's range, book clicks and alphabet
\* clicks; and an operation changes currentBookIndex only when it starts in
\* BOOKS mode.
C31_PositionInRange ==
  /\ nav.currentMode \in {MODES.CHAPTERS, MODES.READING} =>
       /\ nav.currentBookIndex >= 0
       /\ nav.currentBookIndex <= Len(allBooks) - 1
       /\ nav.currentChapter >= 1
       /\ nav.currentChapter <= chapterCounts[
                                  allBooks[nav.currentBookIndex + 1].book]
  /\ nav.currentBookIndex # navh.before.currentBookIndex =>
       navh.before.currentMode = MODES.BOOKS

\* C31 witness: the slider was moved in READING mode, in a book other than
\* the first, to the book's last chapter
C31_Witness ==
  /\ navh.op = "slider"
  /\ navh.before.currentMode = MODES.READING
  /\ nav.currentMode = MODES.READING
  /\ nav.currentBookIndex > 0
  /\ nav.currentChapter > 1
  /\ nav.currentChapter # navh.before.currentChapter
  /\ nav.currentChapter = chaptersOf(nav)

\* ---------------------------------------------------------------- C32
\* no updateReadingDisplay call is suspended
FetchesSettled == \A id \in DOMAIN view.calls : view.calls[id].pc # "fetch"

\* C32 (as claimed): in READING mode, once every fetch has settled, the
\* reading view that is rendered (verses or error message, with its title)
\* is the one of the current book and chapter, in whatever order the fetches
\* of overlapping updateReadingDisplay calls have settled.
C32_ReadingViewIsCurrent ==
  /\ nav.currentMode = MODES.READING
  /\ FetchesSettled
  /\ view.shown.kind \in {"verses", "error"}
  => /\ view.shown.book = nav.currentBookIndex
     /\ view.shown.chapter = nav.currentChapter

\* ---------------------------------------------------------------- C33
\* C33 (as claimed): when a suspended updateChapterDisplay call has resumed,
\* what is rendered is the view of the current mode, book and chapter: the
\* chapter view of the current chapter, and only in CHAPTERS mode.
C33_ResumedChapterViewIsCurrent ==
  view.last = "chapterResumed" =>
    /\ nav.currentMode = MODES.CHAPTERS
    /\ view.shown = Shown("chapters", nav.currentBookIndex,
                          nav.currentChapter)

====
